---- MODULE Spec2Model ----
(***************************************************************************)
(* A model of vsort (src/vsort.c, src/vsort.h): the int sorting engines    *)
(* (insertion sort, iterative quicksort, LSD radix sort, merge), the       *)
(* sequential and parallel drivers, the dispatcher vsort(), the public     *)
(* wrappers and the library initialisation.                                *)
(*                                                                         *)
(* C arrays are functions over 0..n-1, so every index is the source's.     *)
(* int is modelled IntBits wide (two's complement) and unsigned int        *)
(* modulo 2^IntBits.                                                        *)
(***************************************************************************)
EXTENDS Integers, Sequences, FiniteSets, TLC

\* -------------------------------------------------------------------------
\* Bounds of the model
\* -------------------------------------------------------------------------

\* Width of int / unsigned int in the model (32 in the build).
IntBits == 10

\* Longest array drawn over the whole of Values.
MaxLen == 4

\* Longest array drawn over the two values of PairValues.
MaxPairLen == 7

\* Length of the long arrays (the shortest the nearly-sorted heuristic samples).
LongLen == 20

\* The thresholds of the build are in the thousands; the arrays of the model
\* are short. The model's settings scale parallel_threshold and radix_threshold
\* down to ParallelAt and RadixAt so that short arrays cross them, and use
\* Never for a threshold no array of the model reaches.
ParallelAt == 3

RadixAt == 3

Never == 1000

\* How many times the caller sorts the same array.
MaxCalls == 2

\* Longest array handed to vsort_float, vsort_char, vsort_with_comparator and
\* vsort_sort.
MaxApiLen == 3

\* Threads that make their first call into the library at the same time.
NumThreads == 2

\* -------------------------------------------------------------------------
\* Integer arithmetic of the C types
\* -------------------------------------------------------------------------

RECURSIVE Pow2(_)
Pow2(k) == IF k = 0 THEN 1 ELSE 2 * Pow2(k - 1)

INT_MAX == Pow2(IntBits - 1) - 1
INT_MIN == -Pow2(IntBits - 1)
UINT_MAX == Pow2(IntBits) - 1

VSORT_MIN(a, b) == IF a < b THEN a ELSE b
VSORT_MAX(a, b) == IF a > b THEN a ELSE b

\* (unsigned int)x for an int x
ToUnsigned(x) == x % Pow2(IntBits)

\* (int)u for an unsigned int u (the two's complement reading)
ToSigned(u) == IF u > INT_MAX THEN u - Pow2(IntBits) ELSE u

\* The values arrays are drawn from: both ends of the int range, a negative
\* and positive values below and above one radix digit.
Values == {INT_MIN, -1, 2, INT_MAX}

PairValues == {-1, 2}

\* -------------------------------------------------------------------------
\* State
\* -------------------------------------------------------------------------

VARIABLES
    thresholds,                 \* vsort_thresholds_t thresholds
    hardware,                   \* vsort_hardware_t hardware (the fields read)
    vsort_library_initialized,  \* the initialization flag
    platform,                   \* the build: "apple" (VSORT_APPLE and __arm64__),
                                \* "linux" (VSORT_LINUX) or "other"
    arr,                        \* the caller's array, indices 0..n-1
    is_null,                    \* the array pointer is NULL
    n,                          \* the length argument
    orig,                       \* the array as it was when the call began
    pc,                         \* where the call is
    path,                       \* the engines the call went through
    temp,                       \* the merge buffer of the parallel path
    chunk_size,                 \* locals of vsort_parallel_int
    num_chunks,
    width,
    sort_pending,               \* Phase-1 blocks dispatched and not yet run
    merge_state,                \* Phase-2 blocks of the current round
    calls,                      \* calls begun on this array
    prev_out,                   \* the array after the previous call
    entry,                      \* the public function called
    element_size,               \* size argument / options.element_size
    compare,                    \* the comparator: "null" or the order it defines
    kind,                       \* options.kind of vsort_sort
    result,                     \* the vsort_result_t of vsort_sort
    tpc,                        \* where each thread is in its first call
    machine,                    \* what the machine's probes answer
    detected,                   \* the threads that ran detection
    late_write,                 \* the profile or the thresholds were written
                                \* after the flag was set
    pool,                       \* the merge buffer pool of one element kind
    pool_buf,                   \* the pool's buffer
    tarr,                       \* each thread's own array
    torig,                      \* each thread's array as it was passed in
    tbuf,                       \* each thread's transient buffer
    work_stack,                 \* the work stack of quicksort_int: stack[0..top]
    levels,                     \* for each range on the stack, the number of
                                \* partitions it came out of
    partition_level,            \* the nesting depth of the latest partition
    stack_cap,                  \* the number of ints the work stack can hold
    fallbacks,                  \* how often a range was insertion-sorted
                                \* because the stack was near capacity
    nearly,                     \* what vsort_is_nearly_sorted_int returned
    reads,                      \* the indices of arr it read
    sampled,                    \* the inversions it counted and the pairs it
                                \* compared
    merge_args,                 \* left, mid and right of a merge of its own
    temp_in,                    \* temp as it was passed to that merge
    taken,                      \* for each index of arr, the index of the
                                \* element it holds after the merge
    index_left,                 \* left of the loop that counts the merges
    merges_counted,             \* num_merges as counted for the current width
    ranges,                     \* left, mid and right of the merge blocks of
                                \* the latest round
    overflows                   \* the int expressions whose value left the
                                \* range of int

hwVars == <<thresholds, hardware, vsort_library_initialized, platform>>
callVars == <<arr, is_null, n, orig, pc, path, calls, prev_out>>
parVars == <<temp, chunk_size, num_chunks, width, sort_pending, merge_state>>
apiVars == <<entry, element_size, compare, kind, result>>
initVars == <<tpc, machine, detected, late_write>>
poolVars == <<pool, pool_buf, tarr, torig, tbuf>>
quickVars == <<work_stack, levels, partition_level, stack_cap, fallbacks>>
nearVars == <<nearly, reads, sampled>>
mergeVars == <<merge_args, temp_in, taken>>
indexVars == <<index_left, merges_counted, ranges, overflows>>
indexVarsButOverflows == <<index_left, merges_counted, ranges>>
vars == <<hwVars, callVars, parVars, apiVars, initVars, poolVars, quickVars, nearVars, mergeVars, indexVars>>

\* The empty array (also what a NULL pointer holds).
NoArray == [i \in {} |-> 0]

\* -------------------------------------------------------------------------
\* Sequential engines
\* -------------------------------------------------------------------------

\* The while loop of insertion_sort_int: shift the elements greater than key
\* one place right, from j down to low, then drop key at j + 1.
RECURSIVE InsertionShift(_, _, _, _)
InsertionShift(a, j, low, key) ==
    IF j >= low /\ a[j] > key
    THEN InsertionShift([a EXCEPT ![j + 1] = a[j]], j - 1, low, key)
    ELSE [a EXCEPT ![j + 1] = key]

RECURSIVE InsertionFrom(_, _, _, _)
InsertionFrom(a, i, low, high) ==
    IF i <= high
    THEN InsertionFrom(InsertionShift(a, i - 1, low, a[i]), i + 1, low, high)
    ELSE a

\* A faulty insertion sort: the loop starts one element late, at low + 2.
insertion_sort_int_LateStart(a, low, high) == InsertionFrom(a, low + 2, low, high)

insertion_sort_int(a, low, high) == InsertionFrom(a, low + 1, low, high)

\* A faulty swap: *a = *b without the temporary, so one value is lost.
swap_int_NoTemporary(a, x, y) == [a EXCEPT ![x] = a[y]]

swap_int(a, x, y) == [a EXCEPT ![x] = a[y], ![y] = a[x]]

\* The for loop of partition_int: Lomuto scan of j over low..high-1.
RECURSIVE PartitionScan(_, _, _, _, _)
PartitionScan(a, i, j, high, pivot) ==
    IF j < high
    THEN IF a[j] <= pivot
         THEN PartitionScan(IF i + 1 # j THEN swap_int(a, i + 1, j) ELSE a,
                            i + 1, j + 1, high, pivot)
         ELSE PartitionScan(a, i, j + 1, high, pivot)
    ELSE [a |-> swap_int(a, i + 1, high), p |-> i + 1]

\* partition_int: median of three to arr[high], then the scan. Yields the
\* array and the pivot index.
partition_int(a, low, high) ==
    LET mid == low + (high - low) \div 2
        a1 == IF a[low] > a[mid] THEN swap_int(a, low, mid) ELSE a
        a2 == IF a1[mid] > a1[high] THEN swap_int(a1, mid, high) ELSE a1
        a3 == IF a2[low] > a2[mid] THEN swap_int(a2, low, mid) ELSE a2
        a4 == swap_int(a3, mid, high)
    IN PartitionScan(a4, low - 1, low, high, a4[high])

\* int stack_capacity = 2048
stack_capacity == 2048

\* The two pushes after a partition: the right range, then the left range.
PushSubproblems(stack, low, high, p) ==
    LET s1 == IF p + 1 < high THEN stack \o <<p + 1, high>> ELSE stack
    IN IF p - 1 > low THEN s1 \o <<low, p - 1>> ELSE s1

\* One iteration of the while loop of quicksort_int. The stack is the sequence
\* stack[0..top], so top = Len(stack) - 1. Yields the array and the stack;
\* an underflow (top < 1) empties the stack, which ends the loop as the goto does.
StackNearCapacity_Never(top, capacity) == FALSE

\* if (top >= stack_capacity - 4)
StackNearCapacity(top, capacity) == top >= capacity - 4

QuicksortStepCap(a, stack, capacity) ==
    IF Len(stack) - 1 < 1
    THEN [a |-> a, stack |-> <<>>]
    ELSE LET high == stack[Len(stack)]
             low == stack[Len(stack) - 1]
             rest == SubSeq(stack, 1, Len(stack) - 2)
             top == Len(rest) - 1
         IN IF high - low + 1 < thresholds.insertion_threshold
            THEN [a |-> insertion_sort_int(a, low, high), stack |-> rest]
            ELSE LET pr == partition_int(a, low, high)
                 IN IF StackNearCapacity(top, capacity)
                    THEN [a |-> insertion_sort_int(pr.a, low, high), stack |-> rest]
                    ELSE [a |-> pr.a,
                          stack |-> PushSubproblems(rest, low, high, pr.p)]

QuicksortStep(a, stack) == QuicksortStepCap(a, stack, stack_capacity)

RECURSIVE QuicksortLoop(_, _)
QuicksortLoop(a, stack) ==
    IF Len(stack) - 1 >= 0
    THEN LET s == QuicksortStep(a, stack) IN QuicksortLoop(s.a, s.stack)
    ELSE a

\* quicksort_int; stack_ok says whether malloc of the work stack succeeded.
quicksort_int(a, low, high, stack_ok) ==
    IF low >= high THEN a
    ELSE IF high - low + 1 < thresholds.insertion_threshold
         THEN insertion_sort_int(a, low, high)
    ELSE IF ~stack_ok THEN insertion_sort_int(a, low, high)
    ELSE QuicksortLoop(a, <<low, high>>)

\* The first loop of radix_sort_int: the largest and the smallest element.
RECURSIVE MinMaxFrom(_, _, _, _, _)
MinMaxFrom(a, i, size, max_val, min_val) ==
    IF i < size
    THEN MinMaxFrom(a, i + 1, size,
                    IF a[i] > max_val THEN a[i] ELSE max_val,
                    IF a[i] < min_val THEN a[i] ELSE min_val)
    ELSE [max_val |-> max_val, min_val |-> min_val]

\* const int bits_per_pass = 8
bits_per_pass == 8

num_bins == Pow2(bits_per_pass)

\* sizeof(unsigned int) * 8 - __builtin_clz(u) for u > 0: the bits u needs.
RECURSIVE NumBits(_)
NumBits(u) == IF u = 0 THEN 0 ELSE 1 + NumBits(u \div 2)

\* (key >> bit_shift) & mask
BinIndex(key, bit_shift) == (key \div Pow2(bit_shift)) % num_bins

\* count[] after the counting loop and the prefix-sum loop of one pass:
\* count[b] is the number of keys whose digit is at most b.
CumulativeCount(input, size, bit_shift) ==
    [b \in 0..(num_bins - 1) |->
        Cardinality({i \in 0..(size - 1) : BinIndex(input[i], bit_shift) <= b})]

\* The placement loop of one pass, i from size - 1 down to 0:
\* current_output[--count[bin_index]] = current_input[i].
RECURSIVE RadixPlace(_, _, _, _, _)
RadixPlace(input, output, count, i, bit_shift) ==
    IF i >= 0
    THEN LET b == BinIndex(input[i], bit_shift)
         IN RadixPlace(input,
                       [output EXCEPT ![count[b] - 1] = input[i]],
                       [count EXCEPT ![b] = count[b] - 1],
                       i - 1, bit_shift)
    ELSE output

\* The loop over the passes; the two buffers swap roles after each pass, so
\* the result of the last pass is what current_input names at the end.
RECURSIVE RadixPasses(_, _, _, _, _)
RadixPasses(current_input, current_output, size, p, passes) ==
    IF p < passes
    THEN LET bit_shift == p * bits_per_pass
             out == RadixPlace(current_input, current_output,
                               CumulativeCount(current_input, size, bit_shift),
                               size - 1, bit_shift)
         IN RadixPasses(out, current_input, size, p + 1, passes)
    ELSE current_input

\* What -min_val does when min_val = INT_MIN: the negation overflows int,
\* which is undefined; the build either wraps (the result is INT_MIN again) or
\* traps (-ftrapv, a sanitizer).
NegateOverflow == {"wrap", "trap"}

\* -min_val; for every other min_val it is the negation.
Negate(min_val, overflow) == IF min_val = INT_MIN THEN INT_MIN ELSE -min_val

\* The number of passes for the largest shifted key.
RadixPassCount(max_shifted) ==
    LET passes == IF max_shifted > 0
                  THEN (NumBits(max_shifted) + bits_per_pass - 1) \div bits_per_pass
                  ELSE 1
    IN IF passes <= 0 THEN 1 ELSE passes

\* shift_amount = (unsigned int)(-min_val) when min_val < 0, else 0
ShiftAmount(min_val, overflow) ==
    IF min_val < 0 THEN ToUnsigned(Negate(min_val, overflow)) ELSE 0

\* max_shifted = (unsigned int)current_val when min_val < 0, else max_val
MaxShifted(max_val, min_val) ==
    IF min_val < 0 THEN max_val - min_val ELSE max_val

\* A faulty shift: the keys are the values reinterpreted as unsigned.
ShiftKeys_NoShift(a, size, shift_amount) ==
    [i \in 0..(size - 1) |-> ToUnsigned(a[i])]

\* temp_arr[i] = (unsigned int)arr[i] + shift_amount
ShiftKeys(a, size, shift_amount) ==
    [i \in 0..(size - 1) |-> (ToUnsigned(a[i]) + shift_amount) % Pow2(IntBits)]

\* arr[i] = (int)(current_input[i] - shift_amount)
UnshiftKeys(keys, size, shift_amount) ==
    [i \in 0..(size - 1) |-> ToSigned((keys[i] - shift_amount) % Pow2(IntBits))]

\* radix_sort_int. mem says which mallocs succeed (temp_arr, output, and the
\* work stack of the quicksort fallback); overflow is what an overflowing
\* -min_val does. Yields the array and the engine that produced it ("trap"
\* when the call trapped).
\* A faulty fallback: the function returns when a buffer is refused and
\* leaves the array as it is.
RadixFallback_ReturnsUnsorted(a, size, stack_ok) == a

\* The fallback of radix_sort_int when a buffer is refused or the range is
\* rejected: quicksort_int(arr, 0, n - 1) on the array as passed in.
RadixFallback(a, size, stack_ok) == quicksort_int(a, 0, size - 1, stack_ok)

radix_sort_int(a, size, mem, overflow) ==
    IF size <= 1 THEN [a |-> a, path |-> "radix_noop"]
    ELSE
    LET mm == MinMaxFrom(a, 1, size, a[0], a[0])
        max_val == mm.max_val
        min_val == mm.min_val
        current_val == max_val - min_val
        shift_amount == ShiftAmount(min_val, overflow)
        max_shifted == MaxShifted(max_val, min_val)
        passes == RadixPassCount(max_shifted)
        blank == [i \in 0..(size - 1) |-> 0]
    IN IF ~mem.temp_arr
       THEN [a |-> RadixFallback(a, size, mem.stack),
             path |-> "radix_no_temp_arr_quicksort"]
       ELSE IF min_val < 0 /\ current_val > UINT_MAX
       THEN [a |-> RadixFallback(a, size, mem.stack),
             path |-> "radix_range_quicksort"]
       ELSE IF min_val = INT_MIN /\ overflow = "trap"
       THEN [a |-> a, path |-> "trap"]
       ELSE IF ~mem.output
       THEN [a |-> RadixFallback(a, size, mem.stack),
             path |-> "radix_no_output_quicksort"]
       ELSE [a |-> UnshiftKeys(RadixPasses(ShiftKeys(a, size, shift_amount),
                                           blank, size, 0, passes),
                               size, shift_amount),
             path |-> "radix"]

\* merge_sorted_arrays_int: the two memcpy into temp[left..right], then the
\* merge loop back into arr. Yields the array and the buffer.
MergeCopy(a, t, left, mid, right) ==
    [i \in DOMAIN t |-> IF left <= i /\ i <= right THEN a[i] ELSE t[i]]

TakeLeft_Strict(l, r) == l < r

\* The test of the merge loop: *p_left <= *p_right.
TakeLeft(l, r) == l <= r

\* The while loop and the memcpy of what is left of the left run; p_left,
\* p_right and p_dest are indices into temp, temp and arr.
RECURSIVE MergeLoop(_, _, _, _, _, _, _)
MergeLoop(a, t, p_left, p_right, p_dest, p_left_end, p_right_end) ==
    IF p_left < p_left_end /\ p_right < p_right_end
    THEN IF TakeLeft(t[p_left], t[p_right])
         THEN MergeLoop([a EXCEPT ![p_dest] = t[p_left]], t,
                        p_left + 1, p_right, p_dest + 1, p_left_end, p_right_end)
         ELSE MergeLoop([a EXCEPT ![p_dest] = t[p_right]], t,
                        p_left, p_right + 1, p_dest + 1, p_left_end, p_right_end)
    ELSE [i \in DOMAIN a |->
            IF p_dest <= i /\ i < p_dest + (p_left_end - p_left)
            THEN t[p_left + (i - p_dest)]
            ELSE a[i]]

MergeBack(a, t, left, mid, right) ==
    MergeLoop(a, t, left, mid + 1, left, mid + 1, right + 1)

merge_sorted_arrays_int(a, t, left, mid, right) ==
    IF left >= right \/ mid < left \/ mid >= right
    THEN [a |-> a, temp |-> t]
    ELSE LET t1 == MergeCopy(a, t, left, mid, right)
         IN [a |-> MergeBack(a, t1, left, mid, right), temp |-> t1]

\* The same loop, followed through the indices: src[i] is the index of temp
\* whose element arr[i] holds, and an index the loop and the memcpy do not
\* write keeps its own.
RECURSIVE MergeSources(_, _, _, _, _, _, _)
MergeSources(src, t, p_left, p_right, p_dest, p_left_end, p_right_end) ==
    IF p_left < p_left_end /\ p_right < p_right_end
    THEN IF TakeLeft(t[p_left], t[p_right])
         THEN MergeSources([src EXCEPT ![p_dest] = p_left], t,
                           p_left + 1, p_right, p_dest + 1, p_left_end, p_right_end)
         ELSE MergeSources([src EXCEPT ![p_dest] = p_right], t,
                           p_left, p_right + 1, p_dest + 1, p_left_end, p_right_end)
    ELSE [i \in DOMAIN src |->
            IF p_dest <= i /\ i < p_dest + (p_left_end - p_left)
            THEN p_left + (i - p_dest)
            ELSE src[i]]

\* The sampling loop of vsort_is_nearly_sorted_int. Yields the inversions
\* counted and the iterations run.
RECURSIVE NearlySortedScan(_, _, _, _, _, _, _)
NearlySortedScan(a, size, i, step, current_iterations, max_iterations, inversions) ==
    IF (i + step) < size /\ current_iterations < max_iterations
    THEN NearlySortedScan(a, size, i + step, step, current_iterations + 1,
                          max_iterations,
                          IF a[i] > a[i + step] THEN inversions + 1 ELSE inversions)
    ELSE [inversions |-> inversions, current_iterations |-> current_iterations]

TooSmallToTell_Below10(size) == size < 10

\* if (size < 20) return false
TooSmallToTell(size) == size < 20

\* int sample_size = VSORT_MIN(100, VSORT_MAX(10, size / 20))
NearlySampleSize(size) == VSORT_MIN(100, VSORT_MAX(10, size \div 20))

\* int step = VSORT_MAX(1, size / sample_size)
NearlyStep(size) == VSORT_MAX(1, size \div NearlySampleSize(size))

NearlyScan(a, size) ==
    NearlySortedScan(a, size, 0, NearlyStep(size), 0, NearlySampleSize(size), 0)

FewInversions_None(inversions, current_iterations) == inversions = 0

\* return (inversions * 10 < current_iterations)
FewInversions(inversions, current_iterations) ==
    inversions * 10 < current_iterations

vsort_is_nearly_sorted_int(a, size) ==
    IF TooSmallToTell(size) THEN FALSE
    ELSE LET r == NearlyScan(a, size)
         IN IF r.current_iterations = 0 THEN FALSE
            ELSE FewInversions(r.inversions, r.current_iterations)

\* vsort_sequential_int. isnull is !arr. C's / truncates, and the thresholds
\* are positive, so \div is the same.
vsort_sequential_int(a, isnull, size, mem, overflow) ==
    IF isnull \/ size <= 1 THEN [a |-> a, path |-> "sequential_none"]
    ELSE IF /\ size < thresholds.parallel_threshold \div 2
            /\ size < thresholds.radix_threshold
            /\ vsort_is_nearly_sorted_int(a, size)
         THEN [a |-> insertion_sort_int(a, 0, size - 1), path |-> "insertion"]
    ELSE IF size >= thresholds.radix_threshold
         THEN radix_sort_int(a, size, mem, overflow)
    ELSE [a |-> quicksort_int(a, 0, size - 1, mem.stack), path |-> "quicksort"]

\* -------------------------------------------------------------------------
\* Hardware detection and threshold calibration
\* -------------------------------------------------------------------------

\* sizeof(int)
sizeof_int == 4

\* static vsort_thresholds_t thresholds = { ... }
DefaultThresholds ==
    [insertion_threshold |-> 16, vector_threshold |-> 64,
     parallel_threshold |-> 100000, radix_threshold |-> 1000000,
     cache_optimal_elements |-> 16384]

\* static vsort_hardware_t hardware = { ... }
DefaultHardware ==
    [l1_cache_size |-> 32768, l2_cache_size |-> 2097152, cache_line_size |-> 64,
     simd_width |-> 0, performance_cores |-> 1, efficiency_cores |-> 0,
     total_cores |-> 1, has_neon |-> FALSE]

\* What a probe answers: [ok |-> TRUE, val |-> v] when the call succeeds with
\* v, and Unavailable when it fails.
Unavailable == [ok |-> FALSE, val |-> 0]

Answer(v) == [ok |-> TRUE, val |-> v]

\* get_physical_core_count: sysconf(_SC_NPROCESSORS_ONLN), then _CONF, then 1.
\* A failed sysconf returns -1.
get_physical_core_count(probe) ==
    LET onln == IF probe.nprocs_onln.ok THEN probe.nprocs_onln.val ELSE -1
        conf == IF probe.nprocs_conf.ok THEN probe.nprocs_conf.val ELSE -1
    IN IF onln >= 1 THEN onln
       ELSE IF conf >= 1 THEN conf ELSE 1

\* A core count read with sysctlbyname: the physicalcpu key and, when that
\* fails or is not positive, the logicalcpu key; a failed call leaves the
\* variable as it was (0 at first).
SysctlCores(physical, logical) ==
    LET first == IF physical.ok THEN physical.val ELSE 0
    IN IF ~physical.ok \/ first <= 0
       THEN IF logical.ok THEN logical.val ELSE first
       ELSE first

OrDefault(answer, default) == IF answer.ok THEN answer.val ELSE default

\* A cache size read from sysfs with fscanf("%dK"): val * 1024, or the default
\* when no file is read.
KilobytesOrDefault(answer, default) ==
    IF answer.ok THEN answer.val * 1024 ELSE default

\* The reconciliation of the P and E core counts on Apple Silicon.
ReconcileCores(total, p0, e0) ==
    LET p1 == IF p0 > 0 THEN p0 ELSE 0
        e1 == IF e0 > 0 THEN e0 ELSE 0
        r == IF p1 <= 0 /\ e1 <= 0 /\ total > 0
             THEN LET p == IF total \div 2 > 0 THEN total \div 2 ELSE 1
                  IN [p |-> p, e |-> total - p]
             ELSE IF p1 <= 0 /\ e1 > 0 THEN [p |-> total - e1, e |-> e1]
             ELSE IF e1 <= 0 /\ p1 > 0 THEN [p |-> p1, e |-> total - p1]
             ELSE IF p1 > 0 /\ e1 > 0 /\ p1 + e1 # total
                  THEN [p |-> p1, e |-> total - p1]
             ELSE [p |-> p1, e |-> e1]
        p2 == IF r.p < 0 THEN 0 ELSE r.p
        e2 == IF r.e < 0 THEN 0 ELSE r.e
    IN IF total > 0 /\ p2 = 0 /\ e2 = 0 THEN [p |-> total, e |-> e2]
       ELSE [p |-> p2, e |-> e2]

\* vsort_detect_hardware_characteristics: the profile written over hw, given
\* what the platform's probes answer.
vsort_detect_hardware_characteristics(hw, plat, probe) ==
    LET total == LET t == get_physical_core_count(probe)
                 IN IF t <= 0 THEN 1 ELSE t
    IN IF plat = "apple"
       THEN LET c == ReconcileCores(total,
                                    SysctlCores(probe.p_physical, probe.p_logical),
                                    SysctlCores(probe.e_physical, probe.e_logical))
            IN [hw EXCEPT !.total_cores = total,
                          !.has_neon = TRUE,
                          !.simd_width = 16,
                          !.performance_cores = c.p,
                          !.efficiency_cores = c.e,
                          !.cache_line_size = OrDefault(probe.cache_line_size, 64),
                          !.l1_cache_size = OrDefault(probe.l1_cache_size, 32768),
                          !.l2_cache_size = OrDefault(probe.l2_cache_size, 2097152)]
       ELSE IF plat = "linux"
       THEN [hw EXCEPT !.total_cores = total,
                       !.performance_cores = total,
                       !.efficiency_cores = 0,
                       !.simd_width = 0,
                       !.cache_line_size = OrDefault(probe.cache_line_size, 64),
                       !.l1_cache_size = KilobytesOrDefault(probe.l1_size_k, 32768),
                       !.l2_cache_size = KilobytesOrDefault(probe.l2_size_k, 2097152)]
       ELSE [hw EXCEPT !.total_cores = total,
                       !.performance_cores = total,
                       !.efficiency_cores = 0,
                       !.has_neon = FALSE,
                       !.simd_width = 0]

\* vsort_calibrate_thresholds up to the first write of parallel_threshold:
\* the thresholds as they stand before the refinement by the L2 size.
CalibrateFirstWrites(th, hw) ==
    LET insertion == VSORT_MAX(8, VSORT_MIN(32,
                        IF hw.cache_line_size > 0
                        THEN hw.cache_line_size \div sizeof_int ELSE 16))
        vector == IF hw.has_neon /\ hw.simd_width > 0
                  THEN VSORT_MAX(32, (hw.simd_width \div sizeof_int) * 4)
                  ELSE 64
        cores0 == IF hw.performance_cores > 0 THEN hw.performance_cores
                  ELSE hw.total_cores
        effective_cores == IF cores0 <= 0 THEN 1 ELSE cores0
        parallel0 == IF effective_cores >= 8 THEN 50000
                     ELSE IF effective_cores >= 4 THEN 75000 ELSE 150000
    IN [th EXCEPT !.insertion_threshold = insertion,
                  !.vector_threshold = vector,
                  !.parallel_threshold = parallel0]

\* vsort_calibrate_thresholds: the thresholds written, given the profile.
\* Every division has a positive dividend and divisor here, or is guarded.
vsort_calibrate_thresholds(th, hw) ==
    LET insertion == VSORT_MAX(8, VSORT_MIN(32,
                        IF hw.cache_line_size > 0
                        THEN hw.cache_line_size \div sizeof_int ELSE 16))
        vector == IF hw.has_neon /\ hw.simd_width > 0
                  THEN VSORT_MAX(32, (hw.simd_width \div sizeof_int) * 4)
                  ELSE 64
        cores0 == IF hw.performance_cores > 0 THEN hw.performance_cores
                  ELSE hw.total_cores
        effective_cores == IF cores0 <= 0 THEN 1 ELSE cores0
        parallel0 == IF effective_cores >= 8 THEN 50000
                     ELSE IF effective_cores >= 4 THEN 75000 ELSE 150000
        cache_per_core == hw.l2_cache_size \div effective_cores
        parallel == IF hw.l2_cache_size > 0
                    THEN VSORT_MAX(10000, VSORT_MIN(parallel0,
                            IF cache_per_core > 0
                            THEN (cache_per_core \div sizeof_int) * 4
                            ELSE parallel0))
                    ELSE VSORT_MAX(10000, parallel0)
        radix == IF hw.l2_cache_size > 0
                 THEN VSORT_MAX(100000, hw.l2_cache_size \div sizeof_int)
                 ELSE 500000
        cache_optimal == IF hw.l1_cache_size > 0
                         THEN hw.l1_cache_size \div sizeof_int ELSE 8192
    IN [th EXCEPT !.insertion_threshold = insertion,
                  !.vector_threshold = vector,
                  !.parallel_threshold = parallel,
                  !.radix_threshold = radix,
                  !.cache_optimal_elements = cache_optimal]

\* -------------------------------------------------------------------------
\* The parallel driver, vsort_parallel_int
\* -------------------------------------------------------------------------

\* num_chunks and chunk_size as vsort_parallel_int computes them.
ParallelPlan(size) ==
    LET cores0 == IF hardware.performance_cores > 0
                  THEN hardware.performance_cores ELSE hardware.total_cores
        num_cores_to_use == IF cores0 <= 0 THEN 1 ELSE cores0
        max_concurrent_tasks == VSORT_MAX(2, num_cores_to_use * 2)
        min_chunk_size == VSORT_MAX(thresholds.insertion_threshold * 2,
                                    thresholds.cache_optimal_elements)
        desired_chunk_size == VSORT_MAX(min_chunk_size, size \div max_concurrent_tasks)
        chunks0 == (size + desired_chunk_size - 1) \div desired_chunk_size
        chunks == VSORT_MAX(1, VSORT_MIN(chunks0,
                                         size \div thresholds.insertion_threshold))
    IN [num_chunks |-> chunks, chunk_size |-> (size + chunks - 1) \div chunks]

\* The block of chunk i in Phase 1.
ChunkStart(i) == i * chunk_size
\* A faulty block end: one element short.
ChunkEnd_OneShort(i) == VSORT_MIN(ChunkStart(i) + chunk_size - 2, n - 1)

ChunkEnd(i) == VSORT_MIN(ChunkStart(i) + chunk_size - 1, n - 1)

\* The counting loop of a merge round: the blocks at left = 0, 2w, 4w, ...
\* below size whose mid < right.
RECURSIVE CountMerges(_, _, _)
CountMerges(left, w, size) ==
    IF left < size
    THEN LET mid == VSORT_MIN(left + w - 1, size - 1)
             right == VSORT_MIN(left + 2 * w - 1, size - 1)
         IN (IF mid < right THEN 1 ELSE 0) + CountMerges(left + 2 * w, w, size)
    ELSE 0

\* left, mid and right of merge task i of the round of the current width.
MergeLeft(i) == i * (2 * width)
MergeMid(i) == VSORT_MIN(MergeLeft(i) + width - 1, n - 1)
\* A faulty right end: the first element of the next pair of blocks.
MergeRight_IntoNext(i) == VSORT_MIN(MergeLeft(i) + 2 * width, n - 1)

MergeRight(i) == VSORT_MIN(MergeLeft(i) + 2 * width - 1, n - 1)

\* The early return of merge_sorted_arrays_int.
MergeRejects(left, mid, right) == left >= right \/ mid < left \/ mid >= right

\* -------------------------------------------------------------------------
\* Predicates on arrays
\* -------------------------------------------------------------------------

\* A[i-1] <= A[i] for all 0 < i < size
IsSorted(a, size) == \A i \in 1..(size - 1) : a[i - 1] <= a[i]

Occurrences(a, v) == Cardinality({i \in DOMAIN a : a[i] = v})

Elements(a) == {a[i] : i \in DOMAIN a}

\* a is a permutation of b
IsPermutation(a, b) ==
    /\ DOMAIN a = DOMAIN b
    /\ \A v \in Elements(a) \cup Elements(b) : Occurrences(a, v) = Occurrences(b, v)

\* -------------------------------------------------------------------------
\* The float driver and the qsort fallbacks
\* -------------------------------------------------------------------------

\* vsort_sequential_float. insertion_sort_float, partition_float,
\* quicksort_float and vsort_is_nearly_sorted_float are the int functions
\* with float elements, statement for statement, so the int operators stand
\* for them; the float values drawn are ordinary numbers (no NaN). There is
\* no radix sort for floats.
vsort_sequential_float(a, isnull, size, mem) ==
    IF isnull \/ size <= 1
    THEN [a |-> a, path |-> "sequential_none"]
    ELSE IF size < thresholds.parallel_threshold \div 2
            /\ vsort_is_nearly_sorted_int(a, size)
    THEN [a |-> insertion_sort_int(a, 0, size - 1), path |-> "insertion"]
    ELSE [a |-> quicksort_int(a, 0, size - 1, mem.stack), path |-> "quicksort"]

\* A char read as unsigned char.
ToUnsignedChar(x) == x % 256

\* A faulty comparator: the bytes are compared as (signed) chars.
default_char_comparator_Signed(x, y) == x - y

\* default_char_comparator: the difference of the two bytes as unsigned chars.
default_char_comparator(x, y) == ToUnsignedChar(x) - ToUnsignedChar(y)

\* The comparators a caller passes to vsort_with_comparator.
Comparators == {"ascending", "descending"}

\* compar(x, y) as qsort calls it: default_char_comparator, or one of the
\* caller's comparators.
CallComparator(compar, x, y) ==
    IF compar = "default_char_comparator" THEN default_char_comparator(x, y)
    ELSE IF compar = "ascending" THEN x - y
    ELSE y - x

\* The orders qsort may leave the elements at the indices of left in, as
\* sequences: a first element that compar puts before or level with every
\* other, then an order of the rest. Elements that compar holds level may
\* come in any order.
RECURSIVE QsortArrangements(_, _, _)
QsortArrangements(a, left, compar) ==
    IF left = {} THEN {<<>>}
    ELSE LET vals == {a[i] : i \in left}
             firsts == {v \in vals :
                          \A w \in vals : CallComparator(compar, v, w) <= 0}
         IN UNION {{<<v>> \o rest :
                      rest \in QsortArrangements(
                                  a, left \ {CHOOSE i \in left : a[i] = v}, compar)} :
                   v \in firsts}

\* qsort(base, nmemb, size, compar) of the C library: what it may leave in the
\* first nmemb elements is any arrangement of them that compar orders.
qsort(a, nmemb, compar) ==
    {[i \in DOMAIN a |-> IF i < nmemb THEN seq[i + 1] ELSE a[i]] :
        seq \in QsortArrangements(a, 0..(nmemb - 1), compar)}

\* A faulty call of qsort: one element short.
GenericSort_OneShort(a, size, cmp) == qsort(a, size - 1, cmp)

\* qsort(arr, n, size, compare) in vsort_with_comparator.
GenericSort(a, size, cmp) == qsort(a, size, cmp)

\* char arr[] = {'z', 'b', 'k', 'a', 'r', 'f', 'm', 'p', 'c', 'e'};
CharExample ==
    [i \in 0..9 |-> <<122, 98, 107, 97, 114, 102, 109, 112, 99, 101>>[i + 1]]

\* "abcefkmprz"
CharExampleSorted ==
    [i \in 0..9 |-> <<97, 98, 99, 101, 102, 107, 109, 112, 114, 122>>[i + 1]]

\* int arr[] = {9, 3, 5, 1, 8, 2, 7, 6, 4, 0};
ComparatorExample ==
    [i \in 0..9 |-> <<9, 3, 5, 1, 8, 2, 7, 6, 4, 0>>[i + 1]]

\* -------------------------------------------------------------------------
\* Inputs
\* -------------------------------------------------------------------------

ArraysOver(vals, lens) == UNION {[0..(k - 1) -> vals] : k \in lens}

\* A long array: -1 below index z and 2 from z on, with INT_MAX at index d
\* (no such element when d is not an index).
LongArray(z, d) ==
    [i \in 0..(LongLen - 1) |-> IF i = d THEN INT_MAX ELSE IF i < z THEN -1 ELSE 2]

LongInputs == {LongArray(z, d) : z \in {0, LongLen \div 2}, d \in {-1, 0, 1}}

Inputs == ArraysOver(Values, 0..MaxLen)
          \cup ArraysOver(PairValues, (MaxLen + 1)..MaxPairLen)
          \cup LongInputs

\* Which mallocs of a call succeed.
MemOutcomes == [temp_arr : BOOLEAN, output : BOOLEAN, stack : BOOLEAN]

\* The settings the thresholds are drawn from when the library is already
\* initialized: the thresholds, the core count and the platform.
Setting(ins, par, rad, opt, cores, plat) ==
    [thresholds |-> [DefaultThresholds EXCEPT !.insertion_threshold = ins,
                                              !.parallel_threshold = par,
                                              !.radix_threshold = rad,
                                              !.cache_optimal_elements = opt],
     hardware |-> [DefaultHardware EXCEPT !.performance_cores = cores,
                                          !.total_cores = cores],
     platform |-> plat]

Settings ==
    { Setting(1, Never, Never, 1, 1, "other"),
      Setting(3, Never, Never, 1, 1, "linux"),
      Setting(1, Never, RadixAt, 1, 1, "other"),
      Setting(1, ParallelAt, Never, 1, 1, "apple"),
      Setting(1, ParallelAt, Never, 1, 2, "apple"),
      Setting(2, ParallelAt, RadixAt + 1, 3, 2, "apple"),
      Setting(1, ParallelAt, RadixAt, 1, 1, "linux") }

\* What the probes answer when detection runs in the call itself.
NoAnswers ==
    [nprocs_onln |-> Unavailable, nprocs_conf |-> Unavailable,
     p_physical |-> Unavailable, p_logical |-> Unavailable,
     e_physical |-> Unavailable, e_logical |-> Unavailable,
     cache_line_size |-> Unavailable, l1_cache_size |-> Unavailable,
     l2_cache_size |-> Unavailable, l1_size_k |-> Unavailable,
     l2_size_k |-> Unavailable]

CallProbes ==
    { NoAnswers,
      [nprocs_onln |-> Answer(8), nprocs_conf |-> Answer(8),
       p_physical |-> Answer(4), p_logical |-> Answer(4),
       e_physical |-> Answer(4), e_logical |-> Answer(4),
       cache_line_size |-> Answer(128), l1_cache_size |-> Answer(65536),
       l2_cache_size |-> Answer(4194304), l1_size_k |-> Answer(64),
       l2_size_k |-> Answer(4096)] }

\* -------------------------------------------------------------------------
\* The caller: vsort(arr, n), possibly again on the result
\* -------------------------------------------------------------------------

InitPar ==
    /\ temp = NoArray
    /\ chunk_size = 0
    /\ num_chunks = 0
    /\ width = 0
    /\ sort_pending = {}
    /\ merge_state = NoArray

InitHw ==
    \/ /\ vsort_library_initialized = FALSE
       /\ thresholds = DefaultThresholds
       /\ hardware = DefaultHardware
       /\ platform \in {"apple", "linux", "other"}
    \/ /\ vsort_library_initialized = TRUE
       /\ \E s \in Settings :
            /\ thresholds = s.thresholds
            /\ hardware = s.hardware
            /\ platform = s.platform

\* The four sort functions of vsort.c.
Wrappers == {"vsort", "vsort_float", "vsort_char", "vsort_with_comparator"}

\* The arrays every wrapper is called with.
ApiArrays == ArraysOver(PairValues, 0..MaxApiLen)

\* The array and the length of the call: an array with its length, with 0 or
\* with a negative length, or a null pointer with any length.
InitArgs ==
    \/ /\ entry = "vsort"
       /\ is_null = FALSE
       /\ arr \in Inputs
       /\ n = Cardinality(DOMAIN arr)
    \/ /\ is_null = FALSE
       /\ arr \in ApiArrays
       /\ n \in {-1, 0, Cardinality(DOMAIN arr)}
    \/ /\ is_null = TRUE
       /\ arr = NoArray
       /\ n \in -1..2
    \/ /\ entry = "vsort_char"
       /\ is_null = FALSE
       /\ arr = CharExample
       /\ n = Cardinality(DOMAIN arr)
    \/ /\ entry = "vsort_with_comparator"
       /\ is_null = FALSE
       /\ arr = ComparatorExample
       /\ n = Cardinality(DOMAIN arr)

InitCall ==
    /\ InitArgs
    /\ orig = arr
    /\ pc = "idle"
    /\ path = <<>>
    /\ calls = 0
    /\ prev_out = NoArray

\* The arguments only vsort_with_comparator takes.
InitWrapper ==
    /\ entry \in Wrappers
    /\ IF entry = "vsort_with_comparator"
       THEN /\ element_size \in {0, sizeof_int}
            /\ compare \in {"null"} \cup Comparators
       ELSE /\ element_size = IF entry = "vsort_char" THEN 1 ELSE sizeof_int
            /\ compare = "null"
    /\ kind = "none"
    /\ result = "none"

\* The heuristic has not been asked.
InitNoNearly ==
    /\ nearly = FALSE
    /\ reads = {}
    /\ sampled = [inversions |-> 0, observed |-> 0]

\* No walk through the index arithmetic under way.
InitNoIndex ==
    /\ index_left = 0
    /\ merges_counted = 0
    /\ ranges = {}
    /\ overflows = {}

\* No merge of its own under way.
InitNoMerge ==
    /\ merge_args = [left |-> 0, mid |-> 0, right |-> 0]
    /\ temp_in = NoArray
    /\ taken = NoArray

\* No quicksort_int of its own under way.
InitNoQuick ==
    /\ work_stack = <<>>
    /\ levels = <<>>
    /\ partition_level = 0
    /\ fallbacks = 0

\* The pool before its first use, and no thread with an array of its own.
InitNoPool ==
    /\ pool = [busy |-> FALSE, capacity |-> 0]
    /\ pool_buf = NoArray
    /\ tarr = [t \in 1..NumThreads |-> NoArray]
    /\ torig = [t \in 1..NumThreads |-> NoArray]
    /\ tbuf = [t \in 1..NumThreads |-> NoArray]

\* One caller: no other thread is in the library, and the probes are
\* consulted when the caller's detection runs.
InitAlone ==
    /\ tpc = [t \in 1..NumThreads |-> "away"]
    /\ machine = NoAnswers
    /\ detected = {}
    /\ late_write = FALSE
    /\ InitNoPool
    /\ InitNoQuick
    /\ InitNoNearly
    /\ InitNoMerge
    /\ InitNoIndex

Init == InitHw /\ InitWrapper /\ InitCall /\ InitPar /\ InitAlone
        /\ stack_cap = stack_capacity

\* A faulty vsort_init_thresholds: the flag is not tested, so detection and
\* calibration run at every call.
InitThresholdsAlone_NoFlagTest ==
    \E probe \in CallProbes :
        LET hw == vsort_detect_hardware_characteristics(hardware, platform, probe)
        IN /\ hardware' = hw
           /\ thresholds' = vsort_calibrate_thresholds(thresholds, hw)
           /\ vsort_library_initialized' = TRUE

\* vsort_init_thresholds, run by one caller: nothing when the flag is set,
\* else detection, calibration and the flag.
InitThresholdsAlone ==
    IF vsort_library_initialized
    THEN UNCHANGED <<thresholds, hardware, vsort_library_initialized>>
    ELSE \E probe \in CallProbes :
            LET hw == vsort_detect_hardware_characteristics(hardware, platform, probe)
            IN /\ hardware' = hw
               /\ thresholds' = vsort_calibrate_thresholds(thresholds, hw)
               /\ vsort_library_initialized' = TRUE

\* The first statement of vsort, vsort_float, vsort_char and
\* vsort_with_comparator: vsort_init().
VsortEnter ==
    /\ pc = "idle"
    /\ InitThresholdsAlone
    /\ pc' = "dispatch"
    /\ calls' = calls + 1
    /\ orig' = arr
    /\ UNCHANGED <<platform, arr, is_null, n, path, prev_out, parVars,
                   apiVars, initVars, poolVars, quickVars, nearVars, mergeVars, indexVars>>

\* vsort_init() called by the program itself, between two sorts.
VsortInit ==
    /\ pc = "idle"
    /\ InitThresholdsAlone
    /\ UNCHANGED <<platform, callVars, parVars, apiVars, initVars, poolVars, quickVars, nearVars, mergeVars, indexVars>>

\* The outcomes of -min_val that can arise for array a: the negation
\* overflows only when INT_MIN is an element.
OverflowOutcomes(a) ==
    IF \E i \in DOMAIN a : a[i] = INT_MIN THEN NegateOverflow ELSE {"wrap"}

\* The call ends in vsort_sequential_int, or in vsort_sequential_float when
\* the call is vsort_float.
RunSequential(prefix) ==
    \E mem \in MemOutcomes, overflow \in OverflowOutcomes(arr) :
        LET r == IF entry = "vsort_float"
                 THEN vsort_sequential_float(arr, is_null, n, mem)
                 ELSE vsort_sequential_int(arr, is_null, n, mem, overflow)
        IN /\ arr' = r.a
           /\ path' = prefix \o <<r.path>>
           /\ pc' = IF r.path = "trap" THEN "trapped" ELSE "done"
           /\ UNCHANGED parVars

\* A faulty recovery: the parallel driver returns when the merge buffer is
\* refused and leaves the array as it is.
AbandonParallel_ReturnsUnsorted ==
    /\ path' = <<"parallel_no_temp">>
    /\ pc' = "done"
    /\ UNCHANGED <<arr, parVars>>

\* if (!temp) { ...; vsort_sequential_int(arr, size); return; }
AbandonParallel == RunSequential(<<"parallel_no_temp">>)

\* vsort_parallel_int up to the dispatch of Phase 1. temp_ok says whether the
\* merge buffer was allocated. vsort_parallel_float is the same function over
\* float elements; this and the actions of the two phases stand for both.
StartParallel ==
    IF is_null \/ n < thresholds.parallel_threshold
    THEN RunSequential(<<"parallel_below_threshold">>)
    ELSE \E temp_ok \in BOOLEAN :
            IF ~temp_ok
            THEN AbandonParallel
            ELSE LET plan == ParallelPlan(n)
                 IN /\ num_chunks' = plan.num_chunks
                    /\ chunk_size' = plan.chunk_size
                    /\ temp' = [i \in 0..(n - 1) |-> 0]
                    /\ sort_pending' = 0..(plan.num_chunks - 1)
                    /\ pc' = "phase1"
                    /\ path' = <<"parallel">>
                    /\ UNCHANGED <<arr, width, merge_state>>

\* A faulty early return: n < 1 for n <= 1.
VsortReturnsEarly_Below1(isnull, size) == isnull \/ size < 1

\* if (!arr || n <= 1) return;
VsortReturnsEarly(isnull, size) == isnull \/ size <= 1

\* vsort and vsort_float after vsort_init(): the early return and the choice
\* of the driver.
VsortDispatch ==
    /\ pc = "dispatch"
    /\ entry \in {"vsort", "vsort_float"}
    /\ IF VsortReturnsEarly(is_null, n)
       THEN /\ pc' = "done"
            /\ path' = <<"none">>
            /\ UNCHANGED <<arr, parVars>>
       ELSE IF n < thresholds.parallel_threshold
       THEN RunSequential(<<>>)
       ELSE IF platform = "apple"
       THEN StartParallel
       ELSE RunSequential(<<"parallel_unavailable">>)
    /\ UNCHANGED <<hwVars, is_null, n, orig, calls, prev_out, apiVars, initVars, poolVars, quickVars, nearVars, mergeVars, indexVars>>

\* vsort_char after vsort_init(): the early return, else qsort with
\* default_char_comparator.
VsortChar ==
    /\ pc = "dispatch"
    /\ entry = "vsort_char"
    /\ IF VsortReturnsEarly(is_null, n)
       THEN /\ path' = <<"none">>
            /\ UNCHANGED arr
       ELSE /\ arr' \in qsort(arr, n, "default_char_comparator")
            /\ path' = <<"qsort">>
    /\ pc' = "done"
    /\ UNCHANGED <<hwVars, is_null, n, orig, calls, prev_out, parVars,
                   apiVars, initVars, poolVars, quickVars, nearVars, mergeVars, indexVars>>

\* A faulty early return: the comparator is not tested.
ComparatorReturnsEarly_NoCompareTest(isnull, size, esize, cmp) ==
    isnull \/ size <= 1 \/ esize = 0

\* if (!arr || n <= 1 || size == 0 || !compare) return;
ComparatorReturnsEarly(isnull, size, esize, cmp) ==
    isnull \/ size <= 1 \/ esize = 0 \/ cmp = "null"

\* vsort_with_comparator after vsort_init(): the early return, else qsort
\* with the caller's comparator.
VsortWithComparator ==
    /\ pc = "dispatch"
    /\ entry = "vsort_with_comparator"
    /\ IF ComparatorReturnsEarly(is_null, n, element_size, compare)
       THEN /\ path' = <<"none">>
            /\ UNCHANGED arr
       ELSE /\ arr' \in GenericSort(arr, n, compare)
            /\ path' = <<"qsort">>
    /\ pc' = "done"
    /\ UNCHANGED <<hwVars, is_null, n, orig, calls, prev_out, parVars,
                   apiVars, initVars, poolVars, quickVars, nearVars, mergeVars, indexVars>>

\* One Phase-1 block: quicksort_int on chunk i. The blocks of a phase run
\* concurrently on disjoint index ranges; each is one step here.
ChunkSort(i) ==
    /\ pc = "phase1"
    /\ i \in sort_pending
    /\ \E stack_ok \in BOOLEAN :
         arr' = IF ChunkStart(i) <= ChunkEnd(i)
                THEN quicksort_int(arr, ChunkStart(i), ChunkEnd(i), stack_ok)
                ELSE arr
    /\ sort_pending' = sort_pending \ {i}
    /\ UNCHANGED <<hwVars, is_null, n, orig, pc, path, calls, prev_out,
                   temp, chunk_size, num_chunks, width, merge_state, apiVars, initVars, poolVars, quickVars, nearVars, mergeVars, indexVars>>

GroupWaitReturns_AtOnce == TRUE

\* dispatch_group_wait(group, DISPATCH_TIME_FOREVER) returns when no block
\* of the group is left.
GroupWaitReturns == sort_pending = {}

\* dispatch_group_wait returns: every Phase-1 block has run. The width loop
\* starts at chunk_size.
Phase1Join ==
    /\ pc = "phase1"
    /\ GroupWaitReturns
    /\ width' = chunk_size
    /\ pc' = "round"
    /\ UNCHANGED <<hwVars, arr, is_null, n, orig, path, calls, prev_out,
                   temp, chunk_size, num_chunks, sort_pending, merge_state, apiVars, initVars, poolVars, quickVars, nearVars, mergeVars, indexVars>>

\* The head of the width loop: leave it when width >= size (free temp and
\* return), skip a width with nothing to merge, else dispatch the round.
RoundBegin ==
    /\ pc = "round"
    /\ IF width < n
       THEN LET num_merges == CountMerges(0, width, n)
            IN IF num_merges = 0
               THEN /\ width' = width * 2
                    /\ UNCHANGED <<pc, merge_state, temp>>
               ELSE /\ merge_state' = [i \in 0..(num_merges - 1) |-> "queued"]
                    /\ pc' = "merging"
                    /\ UNCHANGED <<width, temp>>
       ELSE /\ pc' = "done"
            /\ temp' = NoArray
            /\ UNCHANGED <<width, merge_state>>
    /\ UNCHANGED <<hwVars, arr, is_null, n, orig, path, calls, prev_out,
                   chunk_size, num_chunks, sort_pending, apiVars, initVars, poolVars, quickVars, nearVars, mergeVars, indexVars>>

\* Merge task i, first half: the two memcpy of the runs into temp.
MergeTaskCopy(i) ==
    /\ pc = "merging"
    /\ i \in DOMAIN merge_state
    /\ merge_state[i] = "queued"
    /\ IF MergeMid(i) < MergeRight(i)
          /\ ~MergeRejects(MergeLeft(i), MergeMid(i), MergeRight(i))
       THEN /\ temp' = MergeCopy(arr, temp, MergeLeft(i), MergeMid(i), MergeRight(i))
            /\ merge_state' = [merge_state EXCEPT ![i] = "copied"]
       ELSE /\ merge_state' = [merge_state EXCEPT ![i] = "done"]
            /\ UNCHANGED temp
    /\ UNCHANGED <<hwVars, arr, is_null, n, orig, pc, path, calls, prev_out,
                   chunk_size, num_chunks, width, sort_pending, apiVars, initVars, poolVars, quickVars, nearVars, mergeVars, indexVars>>

\* Merge task i, second half: the merge loop from temp back into arr.
MergeTaskMerge(i) ==
    /\ pc = "merging"
    /\ i \in DOMAIN merge_state
    /\ merge_state[i] = "copied"
    /\ arr' = MergeBack(arr, temp, MergeLeft(i), MergeMid(i), MergeRight(i))
    /\ merge_state' = [merge_state EXCEPT ![i] = "done"]
    /\ UNCHANGED <<hwVars, is_null, n, orig, pc, path, calls, prev_out,
                   temp, chunk_size, num_chunks, width, sort_pending, apiVars, initVars, poolVars, quickVars, nearVars, mergeVars, indexVars>>

ApplyReturns_AtOnce == TRUE

\* dispatch_apply returns to its caller when every iteration has run.
ApplyReturns == \A i \in DOMAIN merge_state : merge_state[i] = "done"

\* dispatch_apply returns: every merge of the round is done; width *= 2.
RoundJoin ==
    /\ pc = "merging"
    /\ ApplyReturns
    /\ width' = width * 2
    /\ merge_state' = NoArray
    /\ pc' = "round"
    /\ UNCHANGED <<hwVars, arr, is_null, n, orig, path, calls, prev_out,
                   temp, chunk_size, num_chunks, sort_pending, apiVars, initVars, poolVars, quickVars, nearVars, mergeVars, indexVars>>

\* The caller sorts the result again.
SortAgain ==
    /\ pc = "done"
    /\ calls < MaxCalls
    /\ prev_out' = arr
    /\ pc' = "idle"
    /\ path' = <<>>
    /\ UNCHANGED <<hwVars, arr, is_null, n, orig, calls, parVars, apiVars, initVars, poolVars, quickVars, nearVars, mergeVars, indexVars>>

\* -------------------------------------------------------------------------
\* vsort_sort(options), declared in vsort.h; its definition is not among the
\* sources, so it is modelled from the dispatcher of the specification
\* -------------------------------------------------------------------------

\* vsort_data_kind_t, and a tag that is none of its values.
Kinds == {"Int32", "Float32", "Byte", "Generic"}
KindTags == Kinds \cup {"unknown"}

\* A faulty validation: the element size of a Generic request is not tested.
RequestIsMalformed_NoSizeTest(isnull, length, k, esize, cmp) ==
    \/ isnull /\ length > 0
    \/ k = "Generic" /\ cmp = "null"

\* Validation: null data with nonzero length, or a Generic request missing a
\* comparator or with zero element size.
RequestIsMalformed(isnull, length, k, esize, cmp) ==
    \/ isnull /\ length > 0
    \/ k = "Generic" /\ (cmp = "null" \/ esize = 0)

\* The order of a kind: numeric for Int32 and Float32, by unsigned byte for
\* Byte, the caller's comparator for Generic.
KindOrder(k, cmp) ==
    IF k = "Byte" THEN "default_char_comparator"
    ELSE IF k = "Generic" THEN cmp
    ELSE "ascending"

\* sort(request): validation, the no-op on a count of at most 1, then the
\* branch by kind; whichever engine the branch picks, the data ends ordered
\* for the kind and Ok is returned.
VsortSort ==
    /\ pc = "idle"
    /\ entry = "vsort_sort"
    /\ orig' = arr
    /\ calls' = calls + 1
    /\ pc' = "done"
    /\ IF RequestIsMalformed(is_null, n, kind, element_size, compare)
       THEN /\ result' = "InvalidArgument"
            /\ path' = <<"none">>
            /\ UNCHANGED arr
       ELSE IF n <= 1
       THEN /\ result' = "Ok"
            /\ path' = <<"none">>
            /\ UNCHANGED arr
       ELSE IF kind \notin Kinds
       THEN /\ result' = "UnsupportedType"
            /\ path' = <<"none">>
            /\ UNCHANGED arr
       ELSE /\ result' = "Ok"
            /\ path' = <<"sorted">>
            /\ arr' \in qsort(arr, n, KindOrder(kind, compare))
    /\ UNCHANGED <<hwVars, is_null, n, prev_out, parVars,
                   entry, element_size, compare, kind, initVars, poolVars, quickVars, nearVars, mergeVars, indexVars>>

\* The requests: any kind tag, element size and comparator, on an array with
\* its length or on null data.
InitRequest ==
    /\ entry = "vsort_sort"
    /\ kind \in KindTags
    /\ element_size \in {0, sizeof_int}
    /\ compare \in {"null"} \cup Comparators
    /\ result = "none"
    /\ \/ /\ is_null = FALSE
          /\ arr \in ApiArrays
          /\ n = Cardinality(DOMAIN arr)
       \/ /\ is_null = TRUE
          /\ arr = NoArray
          /\ n \in 0..2
    /\ orig = arr
    /\ pc = "idle"
    /\ path = <<>>
    /\ calls = 0
    /\ prev_out = NoArray

InitApi == InitHw /\ InitRequest /\ InitPar /\ InitAlone
           /\ stack_cap = stack_capacity

NextApi == VsortSort

SpecApi == InitApi /\ [][NextApi]_vars

\* -------------------------------------------------------------------------
\* Several threads in their first call: vsort_init_thresholds
\* -------------------------------------------------------------------------

Threads == 1..NumThreads

\* A machine with a small L2 cache, next to the answers of CallProbes.
SmallCacheAnswers ==
    [nprocs_onln |-> Answer(4), nprocs_conf |-> Answer(4),
     p_physical |-> Unavailable, p_logical |-> Unavailable,
     e_physical |-> Unavailable, e_logical |-> Unavailable,
     cache_line_size |-> Answer(64), l1_cache_size |-> Answer(32768),
     l2_cache_size |-> Answer(131072), l1_size_k |-> Answer(32),
     l2_size_k |-> Answer(128)]

\* Probes that answer with tiny, zero and negative numbers.
TinyAnswers ==
    [nprocs_onln |-> Answer(0), nprocs_conf |-> Answer(-1),
     p_physical |-> Answer(-2), p_logical |-> Answer(0),
     e_physical |-> Answer(-1), e_logical |-> Answer(0),
     cache_line_size |-> Answer(1), l1_cache_size |-> Answer(2),
     l2_cache_size |-> Answer(3), l1_size_k |-> Answer(0),
     l2_size_k |-> Answer(-1)]

InitProbes == CallProbes \cup {SmallCacheAnswers, TinyAnswers}

\* if (vsort_library_initialized) return;
InitCheckFlag(t) ==
    /\ tpc[t] = "start"
    /\ tpc' = [tpc EXCEPT ![t] = IF vsort_library_initialized THEN "past" ELSE "detect"]
    /\ UNCHANGED <<hwVars, callVars, parVars, apiVars, machine, detected, late_write, poolVars, quickVars, nearVars, mergeVars, indexVars>>

\* vsort_detect_hardware_characteristics(): the profile is written.
InitDetect(t) ==
    /\ tpc[t] = "detect"
    /\ hardware' = vsort_detect_hardware_characteristics(hardware, platform, machine)
    /\ detected' = detected \cup {t}
    /\ late_write' = (late_write \/ vsort_library_initialized)
    /\ tpc' = [tpc EXCEPT ![t] = "calibrate"]
    /\ UNCHANGED <<thresholds, vsort_library_initialized, platform,
                   callVars, parVars, apiVars, machine, poolVars, quickVars, nearVars, mergeVars, indexVars>>

\* vsort_calibrate_thresholds(), up to the first write of parallel_threshold.
InitCalibrateFirst(t) ==
    /\ tpc[t] = "calibrate"
    /\ thresholds' = CalibrateFirstWrites(thresholds, hardware)
    /\ late_write' = (late_write \/ vsort_library_initialized)
    /\ tpc' = [tpc EXCEPT ![t] = "refine"]
    /\ UNCHANGED <<hardware, vsort_library_initialized, platform,
                   callVars, parVars, apiVars, machine, detected, poolVars, quickVars, nearVars, mergeVars, indexVars>>

\* vsort_calibrate_thresholds(), the rest: parallel_threshold refined,
\* radix_threshold and cache_optimal_elements written.
InitCalibrateRest(t) ==
    /\ tpc[t] = "refine"
    /\ thresholds' = vsort_calibrate_thresholds(thresholds, hardware)
    /\ late_write' = (late_write \/ vsort_library_initialized)
    /\ tpc' = [tpc EXCEPT ![t] = "flag"]
    /\ UNCHANGED <<hardware, vsort_library_initialized, platform,
                   callVars, parVars, apiVars, machine, detected, poolVars, quickVars, nearVars, mergeVars, indexVars>>

\* vsort_library_initialized = true; and the return to the caller.
InitSetFlag(t) ==
    /\ tpc[t] = "flag"
    /\ vsort_library_initialized' = TRUE
    /\ tpc' = [tpc EXCEPT ![t] = "past"]
    /\ UNCHANGED <<thresholds, hardware, platform,
                   callVars, parVars, apiVars, machine, detected, late_write, poolVars, quickVars, nearVars, mergeVars, indexVars>>

\* The library before any call, on any platform and machine, and every
\* thread about to make its first call.
InitThreads ==
    /\ vsort_library_initialized = FALSE
    /\ thresholds = DefaultThresholds
    /\ hardware = DefaultHardware
    /\ platform \in {"apple", "linux", "other"}
    /\ machine \in InitProbes
    /\ tpc = [t \in Threads |-> "start"]
    /\ detected = {}
    /\ late_write = FALSE
    /\ entry = "vsort_init"
    /\ kind = "none"
    /\ element_size = 0
    /\ compare = "null"
    /\ result = "none"
    /\ is_null = TRUE
    /\ arr = NoArray
    /\ n = 0
    /\ orig = NoArray
    /\ pc = "idle"
    /\ path = <<>>
    /\ calls = 0
    /\ prev_out = NoArray
    /\ InitPar
    /\ InitNoPool
    /\ InitNoQuick
    /\ InitNoNearly
    /\ InitNoMerge
    /\ InitNoIndex
    /\ stack_cap = stack_capacity

NextInit ==
    \E t \in Threads :
        \/ InitCheckFlag(t)
        \/ InitDetect(t)
        \/ InitCalibrateFirst(t)
        \/ InitCalibrateRest(t)
        \/ InitSetFlag(t)

SpecInit == InitThreads /\ [][NextInit]_vars

\* -------------------------------------------------------------------------
\* The merge buffer pool of one element kind, used by several callers at once
\* (spec.md 4.5).  Each thread merges the two sorted runs of its own array
\* through the pool's buffer when it obtained it, and through a transient
\* buffer when it did not.

MaxPoolLen == 3

ArrayCount(a) == Cardinality(DOMAIN a)

PoolMid(a) == (ArrayCount(a) - 1) \div 2

\* Arrays of two sorted runs whose boundary is out of order: the only pairs
\* a merge round hands to a merge task.
PoolArrays ==
    UNION {{a \in [0..(len - 1) -> PairValues] :
               /\ \A i \in 1..PoolMid(a) : a[i - 1] <= a[i]
               /\ \A i \in (PoolMid(a) + 2)..(len - 1) : a[i - 1] <= a[i]
               /\ a[PoolMid(a)] > a[PoolMid(a) + 1]} : len \in 2..MaxPoolLen}

PoolIsBusy_Never(p) == FALSE

\* "already checked out by another caller"
PoolIsBusy(p) == p.busy

\* The buffer grown to count elements, its old contents kept.
PoolGrow(buf, count) ==
    [i \in 0..(count - 1) |-> IF i \in DOMAIN buf THEN buf[i] ELSE 0]

\* acquire(kind, count): none when the pool is checked out or when growing
\* the buffer fails, the buffer otherwise.  One step, no waiting.
PoolAcquire(t) ==
    /\ tpc[t] = "start"
    /\ IF PoolIsBusy(pool)
       THEN /\ tpc' = [tpc EXCEPT ![t] = "none"]
            /\ UNCHANGED <<pool, pool_buf>>
       ELSE IF pool.capacity >= ArrayCount(tarr[t])
            THEN /\ pool' = [pool EXCEPT !.busy = TRUE]
                 /\ tpc' = [tpc EXCEPT ![t] = "pooled"]
                 /\ UNCHANGED pool_buf
            ELSE \E realloc_ok \in BOOLEAN :
                    IF realloc_ok
                    THEN /\ pool' = [busy |-> TRUE, capacity |-> ArrayCount(tarr[t])]
                         /\ pool_buf' = PoolGrow(pool_buf, ArrayCount(tarr[t]))
                         /\ tpc' = [tpc EXCEPT ![t] = "pooled"]
                    ELSE /\ tpc' = [tpc EXCEPT ![t] = "none"]
                         /\ UNCHANGED <<pool, pool_buf>>
    /\ UNCHANGED <<hwVars, callVars, parVars, apiVars, machine, detected, late_write, quickVars, nearVars, mergeVars, indexVars,
                   tarr, torig, tbuf>>

\* A caller that received none allocates a transient buffer; when that
\* fails too it sorts its array sequentially.
PoolTransient(t) ==
    /\ tpc[t] = "none"
    /\ \E malloc_ok \in BOOLEAN :
          IF malloc_ok
          THEN /\ tbuf' = [tbuf EXCEPT ![t] = PoolGrow(NoArray, ArrayCount(tarr[t]))]
               /\ tpc' = [tpc EXCEPT ![t] = "transient"]
               /\ UNCHANGED tarr
          ELSE /\ tarr' = [tarr EXCEPT ![t] = insertion_sort_int(tarr[t], 0, ArrayCount(tarr[t]) - 1)]
               /\ tpc' = [tpc EXCEPT ![t] = "past"]
               /\ UNCHANGED tbuf
    /\ UNCHANGED <<hwVars, callVars, parVars, apiVars, machine, detected, late_write, quickVars, nearVars, mergeVars, indexVars,
                   pool, pool_buf, torig>>

\* The merge task's copy of its range into the buffer it was given.
PoolCopy(t) ==
    /\ tpc[t] \in {"pooled", "transient"}
    /\ IF tpc[t] = "pooled"
       THEN /\ pool_buf' = MergeCopy(tarr[t], pool_buf, 0, PoolMid(tarr[t]),
                                     ArrayCount(tarr[t]) - 1)
            /\ tpc' = [tpc EXCEPT ![t] = "copied_pooled"]
            /\ UNCHANGED tbuf
       ELSE /\ tbuf' = [tbuf EXCEPT ![t] = MergeCopy(tarr[t], tbuf[t], 0, PoolMid(tarr[t]),
                                                     ArrayCount(tarr[t]) - 1)]
            /\ tpc' = [tpc EXCEPT ![t] = "copied_transient"]
            /\ UNCHANGED pool_buf
    /\ UNCHANGED <<hwVars, callVars, parVars, apiVars, machine, detected, late_write, quickVars, nearVars, mergeVars, indexVars,
                   pool, tarr, torig>>

\* The merge of the two runs from the buffer back into the array.
PoolMerge(t) ==
    /\ tpc[t] \in {"copied_pooled", "copied_transient"}
    /\ tarr' = [tarr EXCEPT ![t] =
                  MergeBack(tarr[t],
                            IF tpc[t] = "copied_pooled" THEN pool_buf ELSE tbuf[t],
                            0, PoolMid(tarr[t]), ArrayCount(tarr[t]) - 1)]
    /\ tpc' = [tpc EXCEPT ![t] =
                  IF tpc[t] = "copied_pooled" THEN "merged_pooled" ELSE "merged_transient"]
    /\ UNCHANGED <<hwVars, callVars, parVars, apiVars, machine, detected, late_write, quickVars, nearVars, mergeVars, indexVars,
                   pool, pool_buf, torig, tbuf>>

\* release(kind) by the owner; a caller with a transient buffer frees it and
\* releases nothing.
PoolRelease(t) ==
    /\ tpc[t] \in {"merged_pooled", "merged_transient"}
    /\ IF tpc[t] = "merged_pooled"
       THEN /\ pool' = [pool EXCEPT !.busy = FALSE]
            /\ UNCHANGED tbuf
       ELSE /\ tbuf' = [tbuf EXCEPT ![t] = NoArray]
            /\ UNCHANGED pool
    /\ tpc' = [tpc EXCEPT ![t] = "past"]
    /\ UNCHANGED <<hwVars, callVars, parVars, apiVars, machine, detected, late_write, quickVars, nearVars, mergeVars, indexVars,
                   pool_buf, tarr, torig>>

InitPool ==
    /\ vsort_library_initialized = TRUE
    /\ thresholds = DefaultThresholds
    /\ hardware = DefaultHardware
    /\ platform = "apple"
    /\ machine = NoAnswers
    /\ tpc = [t \in Threads |-> "start"]
    /\ detected = {}
    /\ late_write = FALSE
    /\ entry = "vsort"
    /\ kind = "none"
    /\ element_size = 0
    /\ compare = "null"
    /\ result = "none"
    /\ is_null = TRUE
    /\ arr = NoArray
    /\ n = 0
    /\ orig = NoArray
    /\ pc = "idle"
    /\ path = <<>>
    /\ calls = 0
    /\ prev_out = NoArray
    /\ InitPar
    /\ pool = [busy |-> FALSE, capacity |-> 0]
    /\ pool_buf = NoArray
    /\ tarr \in [Threads -> PoolArrays]
    /\ torig = tarr
    /\ tbuf = [t \in Threads |-> NoArray]
    /\ InitNoQuick
    /\ InitNoNearly
    /\ InitNoMerge
    /\ InitNoIndex
    /\ stack_cap = stack_capacity

NextPool ==
    \E t \in Threads :
        \/ PoolAcquire(t)
        \/ PoolTransient(t)
        \/ PoolCopy(t)
        \/ PoolMerge(t)
        \/ PoolRelease(t)

SpecPool == InitPool /\ [][NextPool]_vars

\* -------------------------------------------------------------------------
\* quicksort_int on its own, one iteration of its while loop at a time
\* -------------------------------------------------------------------------

QuickLen == 8

\* A work stack of fewer ints than the code's 2048, so that short inputs
\* bring it near capacity.
MaxStackInts == 8

MaxInsertionAt == 3

\* An input on which the left range stays the larger one for several
\* partitions in a row.
SkewedInput ==
    [i \in 0..13 |-> <<5, 4, 4, 7, 2, 5, 4, 1, 1, 6, 2, 2, 0, 5>>[i + 1]]

QuickInputs ==
    ArraysOver(PairValues, 0..QuickLen) \cup ArraysOver(Values, 0..MaxLen)
    \cup {SkewedInput}

\* quicksort_int(arr, 0, n - 1) up to its while loop: the two early returns,
\* malloc of the stack, and the push of the whole range.
QuickEnter ==
    /\ pc = "quick_entry"
    /\ IF 0 >= n - 1
       THEN /\ pc' = "quick_done"
            /\ UNCHANGED <<arr, quickVars>>
       ELSE IF n < thresholds.insertion_threshold
       THEN /\ arr' = insertion_sort_int(arr, 0, n - 1)
            /\ pc' = "quick_done"
            /\ UNCHANGED quickVars
       ELSE \E stack_ok \in BOOLEAN :
               IF ~stack_ok
               THEN /\ arr' = insertion_sort_int(arr, 0, n - 1)
                    /\ pc' = "quick_done"
                    /\ UNCHANGED quickVars
               ELSE /\ work_stack' = <<0, n - 1>>
                    /\ levels' = <<0>>
                    /\ pc' = "quick_loop"
                    /\ UNCHANGED <<arr, partition_level, stack_cap, fallbacks>>
    /\ UNCHANGED <<hwVars, is_null, n, orig, path, calls, prev_out,
                   parVars, apiVars, initVars, poolVars, nearVars, mergeVars, indexVars>>

\* One iteration of while (top >= 0): pop a range, sort it by insertion or
\* partition it and push its two sides.
QuickIterate ==
    /\ pc = "quick_loop"
    /\ Len(work_stack) - 1 >= 0
    /\ LET s == QuicksortStepCap(arr, work_stack, stack_cap)
           high == work_stack[Len(work_stack)]
           low == work_stack[Len(work_stack) - 1]
           level == levels[Len(levels)]
           pushed == (Len(s.stack) - (Len(work_stack) - 2)) \div 2
       IN /\ arr' = s.a
          /\ work_stack' = s.stack
          /\ levels' = SubSeq(levels, 1, Len(levels) - 1)
                          \o [i \in 1..pushed |-> level + 1]
          /\ partition_level' = IF high - low + 1 < thresholds.insertion_threshold
                                THEN partition_level
                                ELSE level + 1
          /\ fallbacks' = IF /\ high - low + 1 >= thresholds.insertion_threshold
                             /\ StackNearCapacity(Len(work_stack) - 3, stack_cap)
                          THEN fallbacks + 1
                          ELSE fallbacks
    /\ UNCHANGED stack_cap
    /\ UNCHANGED <<hwVars, is_null, n, orig, pc, path, calls, prev_out,
                   parVars, apiVars, initVars, poolVars, nearVars, mergeVars, indexVars>>

\* The loop ends with the stack empty; free(stack).
QuickExit ==
    /\ pc = "quick_loop"
    /\ Len(work_stack) - 1 < 0
    /\ pc' = "quick_done"
    /\ UNCHANGED <<hwVars, arr, is_null, n, orig, path, calls, prev_out,
                   parVars, apiVars, initVars, poolVars, quickVars, nearVars, mergeVars, indexVars>>

InitQuick ==
    /\ vsort_library_initialized = TRUE
    /\ \E t \in 1..MaxInsertionAt :
          thresholds = [DefaultThresholds EXCEPT !.insertion_threshold = t]
    /\ hardware = DefaultHardware
    /\ platform = "other"
    /\ entry = "vsort"
    /\ kind = "none"
    /\ element_size = 0
    /\ compare = "null"
    /\ result = "none"
    /\ is_null = FALSE
    /\ arr \in QuickInputs
    /\ n = ArrayCount(arr)
    /\ orig = arr
    /\ pc = "quick_entry"
    /\ path = <<"quicksort">>
    /\ calls = 1
    /\ prev_out = NoArray
    /\ InitPar
    /\ InitAlone
    /\ stack_cap \in {stack_capacity, MaxStackInts}

NextQuick == QuickEnter \/ QuickIterate \/ QuickExit

SpecQuick == InitQuick /\ [][NextQuick]_vars

\* -------------------------------------------------------------------------
\* merge_sorted_arrays_int on its own
\* -------------------------------------------------------------------------

MergeLen == 4

MergeValues == {INT_MIN, -1, 2}

\* What the bytes of a buffer that malloc returned may hold.
TempFills == {0, INT_MAX}

\* arr[left..mid] and arr[mid+1..right] are sorted.
RunsSorted(a, left, mid, right) ==
    /\ \A i \in left..(mid - 1) : a[i] <= a[i + 1]
    /\ \A i \in (mid + 1)..(right - 1) : a[i] <= a[i + 1]

\* The calls on an array a of MergeLen elements: the ranges the early
\* return rejects, and the ranges inside the array whose two runs are sorted.
MergeCalls(a) ==
    {c \in [left : -1..MergeLen, mid : -1..MergeLen, right : -1..MergeLen] :
        \/ MergeRejects(c.left, c.mid, c.right)
        \/ /\ 0 <= c.left
           /\ c.right < MergeLen
           /\ RunsSorted(a, c.left, c.mid, c.right)}

\* Which element each index of arr holds after the call.
MergeTaken(t, left, mid, right) ==
    IF MergeRejects(left, mid, right)
    THEN [i \in DOMAIN t |-> i]
    ELSE MergeSources([i \in DOMAIN t |-> i], t, left, mid + 1, left,
                      mid + 1, right + 1)

\* The call of merge_sorted_arrays_int.
MergeCall ==
    /\ pc = "merge_entry"
    /\ LET out == merge_sorted_arrays_int(arr, temp, merge_args.left,
                                          merge_args.mid, merge_args.right)
       IN /\ arr' = out.a
          /\ temp' = out.temp
          /\ taken' = MergeTaken(out.temp, merge_args.left, merge_args.mid,
                                 merge_args.right)
    /\ pc' = "merge_done"
    /\ UNCHANGED <<hwVars, is_null, n, orig, path, calls, prev_out,
                   chunk_size, num_chunks, width, sort_pending, merge_state,
                   apiVars, initVars, poolVars, quickVars, nearVars,
                   merge_args, temp_in, indexVars>>

InitMerge ==
    /\ vsort_library_initialized = TRUE
    /\ thresholds = DefaultThresholds
    /\ hardware = DefaultHardware
    /\ platform = "other"
    /\ entry = "vsort"
    /\ kind = "none"
    /\ element_size = 0
    /\ compare = "null"
    /\ result = "none"
    /\ is_null = FALSE
    /\ arr \in ArraysOver(MergeValues, {MergeLen})
    /\ n = MergeLen
    /\ orig = arr
    /\ pc = "merge_entry"
    /\ path = <<>>
    /\ calls = 1
    /\ prev_out = NoArray
    /\ temp \in {[i \in 0..(MergeLen - 1) |-> fill] : fill \in TempFills}
    /\ temp_in = temp
    /\ merge_args \in MergeCalls(arr)
    /\ taken = [i \in 0..(MergeLen - 1) |-> i]
    /\ chunk_size = 0
    /\ num_chunks = 0
    /\ width = 0
    /\ sort_pending = {}
    /\ merge_state = NoArray
    /\ tpc = [t \in 1..NumThreads |-> "away"]
    /\ machine = NoAnswers
    /\ detected = {}
    /\ late_write = FALSE
    /\ InitNoPool
    /\ InitNoQuick
    /\ InitNoNearly
    /\ InitNoIndex
    /\ stack_cap = stack_capacity

NextMerge == MergeCall

SpecMerge == InitMerge /\ [][NextMerge]_vars

\* -------------------------------------------------------------------------
\* The index arithmetic of vsort_parallel_int for lengths up to INT_MAX
\* -------------------------------------------------------------------------
\* The arithmetic does not read the elements; they are left out (arr is
\* empty) and n alone is the length.

\* The most turns of the counting loop followed for one width.
MaxMerges == Pow2(IntBits - 4)

\* The value of an int expression does not fit int: undefined; the build
\* either wraps or traps.
IntOverflows(x) == x < INT_MIN \/ x > INT_MAX

\* What the expression yields on a build that wraps.
IntWrapped(x) == ToSigned(ToUnsigned(x))

\* int / int for a positive divisor: the quotient is truncated.
IntDiv(a, b) == IF a >= 0 THEN a \div b ELSE -((-a) \div b)

\* a + b - 1 in int: the sum, then the difference.
PlusLessOne(a, b) ==
    [val |-> IntWrapped(IntWrapped(a + b) - 1),
     ov |-> IntOverflows(a + b) \/ IntOverflows(IntWrapped(a + b) - 1)]

\* Lines 1200-1214: desired_chunk_size, num_chunks and chunk_size, each with
\* the expression that overflowed on the way, if one did.
IndexPlan(size) ==
    LET cores0 == IF hardware.performance_cores > 0
                  THEN hardware.performance_cores ELSE hardware.total_cores
        num_cores_to_use == IF cores0 <= 0 THEN 1 ELSE cores0
        max_concurrent_tasks == VSORT_MAX(2, num_cores_to_use * 2)
        min_chunk_size == VSORT_MAX(thresholds.insertion_threshold * 2,
                                    thresholds.cache_optimal_elements)
        desired_chunk_size ==
            VSORT_MAX(min_chunk_size, IntDiv(size, max_concurrent_tasks))
        sum0 == PlusLessOne(size, desired_chunk_size)
        chunks0 == IntDiv(sum0.val, desired_chunk_size)
        chunks == VSORT_MAX(1, VSORT_MIN(chunks0,
                     IntDiv(size, thresholds.insertion_threshold)))
        sum1 == PlusLessOne(size, chunks)
    IN [num_chunks |-> chunks,
        chunk_size |-> IntDiv(sum1.val, chunks),
        flagged |-> IF sum0.ov THEN <<"size + desired_chunk_size - 1">> ELSE <<>>,
        flagged_then |-> IF sum1.ov THEN <<"size + num_chunks - 1">> ELSE <<>>]

\* start and end of chunk i of Phase 1.
IndexChunk(i) ==
    LET start == IntWrapped(i * chunk_size)
        last == PlusLessOne(start, chunk_size)
    IN [start |-> start,
        end |-> VSORT_MIN(last.val, n - 1),
        flagged |-> (IF IntOverflows(i * chunk_size) THEN {"i * chunk_size"} ELSE {})
                    \cup (IF last.ov THEN {"start + chunk_size - 1"} ELSE {})]

\* mid and right of the block at left for the current width, and the left of
\* the block after it.
IndexBlock(left) ==
    LET to_mid == PlusLessOne(left, width)
        twice == IntWrapped(2 * width)
        to_right == PlusLessOne(left, twice)
    IN [left |-> left,
        mid |-> VSORT_MIN(to_mid.val, n - 1),
        right |-> VSORT_MIN(to_right.val, n - 1),
        next |-> IntWrapped(left + twice),
        flagged |-> (IF to_mid.ov THEN {"left + width - 1"} ELSE {})
                    \cup (IF IntOverflows(2 * width) THEN {"2 * width"} ELSE {})
                    \cup (IF to_right.ov THEN {"left + 2 * width - 1"} ELSE {}),
        flagged_next |-> IF IntOverflows(left + twice)
                         THEN {"left += 2 * width"} ELSE {}]

\* left of merge task i: (int)(i * (size_t)(2 * width)). The conversions
\* keep the low bits.
IndexTaskLeft(i) == IntWrapped(i * ToUnsigned(IntWrapped(2 * width)))

\* The step ran into the overflows of flagged: on a build that traps the
\* process is stopped at one of them.
IndexTrap(flagged) ==
    /\ flagged # {}
    /\ \E at \in flagged : overflows' = overflows \cup {at}
    /\ pc' = "trapped"

IndexUnchanged ==
    UNCHANGED <<hwVars, arr, is_null, n, orig, path, calls, prev_out, temp,
                sort_pending, merge_state, apiVars, initVars, poolVars,
                quickVars, nearVars, mergeVars>>

\* vsort_parallel_int up to Phase 1: the chunk plan.
IndexEnter ==
    /\ pc = "index_entry"
    /\ LET plan == IndexPlan(n)
       IN \/ /\ overflows' = overflows \cup Elements(plan.flagged)
                                         \cup Elements(plan.flagged_then)
             /\ num_chunks' = plan.num_chunks
             /\ chunk_size' = plan.chunk_size
             /\ pc' = "index_chunks"
          \/ /\ IndexTrap(IF plan.flagged # <<>> THEN Elements(plan.flagged)
                           ELSE Elements(plan.flagged_then))
             /\ UNCHANGED <<num_chunks, chunk_size>>
    /\ UNCHANGED <<width, indexVarsButOverflows>>
    /\ IndexUnchanged

\* Phase 1: start and end of every chunk; then width = chunk_size.
IndexChunks ==
    /\ pc = "index_chunks"
    /\ LET flagged == UNION {IndexChunk(i).flagged : i \in 0..(num_chunks - 1)}
       IN \/ /\ overflows' = overflows \cup flagged
             /\ width' = chunk_size
             /\ pc' = "index_round"
          \/ /\ IndexTrap(flagged)
             /\ UNCHANGED width
    /\ UNCHANGED <<num_chunks, chunk_size, indexVarsButOverflows>>
    /\ IndexUnchanged

\* The test of the width loop.
IndexRoundBegin ==
    /\ pc = "index_round"
    /\ IF width < n
       THEN /\ index_left' = 0
            /\ merges_counted' = 0
            /\ pc' = "index_count"
       ELSE /\ pc' = "index_done"
            /\ UNCHANGED <<index_left, merges_counted>>
    /\ UNCHANGED <<num_chunks, chunk_size, width, ranges, overflows>>
    /\ IndexUnchanged

\* One turn of the loop that counts the merges of the round.
IndexCount ==
    /\ pc = "index_count"
    /\ index_left < n
    /\ merges_counted < MaxMerges
    /\ LET block == IndexBlock(index_left)
       IN \/ /\ overflows' = overflows \cup block.flagged \cup block.flagged_next
             /\ merges_counted' = IF block.mid < block.right
                                  THEN merges_counted + 1 ELSE merges_counted
             /\ index_left' = block.next
             /\ UNCHANGED pc
          \/ /\ IndexTrap(IF block.flagged # {} THEN block.flagged
                           ELSE block.flagged_next)
             /\ UNCHANGED <<index_left, merges_counted>>
    /\ UNCHANGED <<num_chunks, chunk_size, width, ranges>>
    /\ IndexUnchanged

\* The counting loop is over: dispatch_apply computes left, mid and right of
\* every merge task (none when num_merges == 0), then width *= 2.
IndexApply ==
    /\ pc = "index_count"
    /\ index_left >= n
    /\ LET blocks == {IndexBlock(IndexTaskLeft(i)) : i \in 0..(merges_counted - 1)}
           flagged == UNION {b.flagged : b \in blocks}
           doubled == IF IntOverflows(width * 2) THEN {"width *= 2"} ELSE {}
       IN \/ /\ overflows' = overflows \cup flagged \cup doubled
             /\ ranges' = {[left |-> b.left, mid |-> b.mid, right |-> b.right] :
                              b \in blocks}
             /\ width' = IntWrapped(width * 2)
             /\ pc' = "index_round"
          \/ /\ IndexTrap(IF flagged # {} THEN flagged ELSE doubled)
             /\ UNCHANGED <<ranges, width>>
    /\ UNCHANGED <<num_chunks, chunk_size, index_left, merges_counted>>
    /\ IndexUnchanged

\* The lengths walked: every length from parallel_threshold to INT_MAX.
IndexSizes == ParallelAt..INT_MAX

\* insertion_threshold with cache_optimal_elements: small ones, which give
\* many chunks, and the default insertion_threshold with a cache of 64 ints.
IndexTunings == {<<2, 4>>, <<16, 64>>}

IndexThresholds ==
    {[DefaultThresholds EXCEPT !.parallel_threshold = ParallelAt,
                               !.insertion_threshold = tuning[1],
                               !.cache_optimal_elements = tuning[2]] :
        tuning \in IndexTunings}

IndexCores == {1, 4}

InitIndex ==
    /\ vsort_library_initialized = TRUE
    /\ thresholds \in IndexThresholds
    /\ hardware \in {[DefaultHardware EXCEPT !.performance_cores = c,
                                             !.total_cores = c] : c \in IndexCores}
    /\ platform = "apple"
    /\ entry = "vsort"
    /\ kind = "none"
    /\ element_size = 0
    /\ compare = "null"
    /\ result = "none"
    /\ is_null = FALSE
    /\ arr = NoArray
    /\ n \in IndexSizes
    /\ orig = NoArray
    /\ pc = "index_entry"
    /\ path = <<>>
    /\ calls = 1
    /\ prev_out = NoArray
    /\ InitPar
    /\ InitAlone
    /\ stack_cap = stack_capacity

NextIndex ==
    \/ IndexEnter
    \/ IndexChunks
    \/ IndexRoundBegin
    \/ IndexCount
    \/ IndexApply

SpecIndex == InitIndex /\ [][NextIndex]_vars

\* -------------------------------------------------------------------------
\* vsort_is_nearly_sorted_int on its own
\* -------------------------------------------------------------------------

\* The lengths of the longer inputs: at the size test, at and around 32, and
\* one where eleven pairs are compared.
NearlyLens == {20, 31, 32, 40, 221}

MaxSwaps == 3

\* The sorted array 0, 1, ..., len - 1 in which, for every k in swapped, the
\* elements at 2k*step and (2k+1)*step have changed places, step being the
\* distance of the compared elements at this length.
SwappedRamp(len, swapped) ==
    LET step == NearlyStep(len)
    IN [i \in 0..(len - 1) |->
          IF \E k \in swapped : i = 2 * k * step /\ i + step < len THEN i + step
          ELSE IF \E k \in swapped : i = (2 * k + 1) * step THEN i - step
          ELSE i]

NearlyInputs ==
    ArraysOver(PairValues, 0..MaxPairLen)
    \cup {SwappedRamp(len, swapped) :
             len \in (0..19) \cup NearlyLens, swapped \in SUBSET (0..(MaxSwaps - 1))}

\* The indices the sampling loop reads: arr[i] and arr[i + step] in each of
\* its iterations.
NearlyReads(a, size) ==
    IF TooSmallToTell(size) THEN {}
    ELSE UNION {{k * NearlyStep(size), k * NearlyStep(size) + NearlyStep(size)} :
                  k \in 0..(NearlyScan(a, size).current_iterations - 1)}

\* The call of the heuristic; arr is a pointer to const.
NearlyCheck ==
    /\ pc = "near_entry"
    /\ nearly' = vsort_is_nearly_sorted_int(arr, n)
    /\ reads' = NearlyReads(arr, n)
    /\ sampled' = IF TooSmallToTell(n)
                  THEN [inversions |-> 0, observed |-> 0]
                  ELSE [inversions |-> NearlyScan(arr, n).inversions,
                        observed |-> NearlyScan(arr, n).current_iterations]
    /\ pc' = "near_done"
    /\ UNCHANGED <<hwVars, arr, is_null, n, orig, path, calls, prev_out,
                   parVars, apiVars, initVars, poolVars, quickVars, mergeVars, indexVars>>

InitNearly ==
    /\ vsort_library_initialized = TRUE
    /\ thresholds = DefaultThresholds
    /\ hardware = DefaultHardware
    /\ platform = "other"
    /\ entry = "vsort"
    /\ kind = "none"
    /\ element_size = 0
    /\ compare = "null"
    /\ result = "none"
    /\ is_null = FALSE
    /\ arr \in NearlyInputs
    /\ n = ArrayCount(arr)
    /\ orig = arr
    /\ pc = "near_entry"
    /\ path = <<>>
    /\ calls = 1
    /\ prev_out = NoArray
    /\ InitPar
    /\ InitAlone
    /\ stack_cap = stack_capacity

NextNearly == NearlyCheck

SpecNearly == InitNearly /\ [][NextNearly]_vars

Next ==
    \/ VsortInit
    \/ VsortEnter
    \/ VsortDispatch
    \/ VsortChar
    \/ VsortWithComparator
    \/ \E i \in 0..MaxPairLen : ChunkSort(i)
    \/ Phase1Join
    \/ RoundBegin
    \/ \E i \in 0..MaxPairLen : MergeTaskCopy(i)
    \/ \E i \in 0..MaxPairLen : MergeTaskMerge(i)
    \/ RoundJoin
    \/ SortAgain

Spec == Init /\ [][Next]_vars

\* The caller's thread keeps running and libdispatch runs every block it was
\* given: some step is taken whenever one is possible.
\* Short arrays, with and without INT_MIN.
FairInputs ==
    ArraysOver({INT_MIN, 2}, (MaxLen - 1)..MaxLen)
    \cup ArraysOver(PairValues, {MaxApiLen})

InitFair == Init /\ arr \in FairInputs

SpecFair == InitFair /\ [][Next]_vars /\ WF_vars(Next)

\* -------------------------------------------------------------------------
\* Properties of a call
\* -------------------------------------------------------------------------

SortedPermutation == IsSorted(arr, n) /\ IsPermutation(arr, orig)

\* The call has returned.
Returned == pc = "done"

\* The call has ended: it returned, or the process was stopped by a trap.
Ended == pc \in {"done", "trapped"}

\* The call is vsort(arr, n) on an int array.
IntCall == entry = "vsort"

\* The engine the call ended in.
LastEngine == IF path = <<>> THEN "" ELSE path[Len(path)]

\* C1: when vsort(A, n) returns, the array is a permutation of what it was
\* when the call began and is non-decreasing, whichever engine ran.
C1_SortedPermutation == (IntCall /\ Returned /\ ~is_null /\ n >= 0) => SortedPermutation

\* A call that went through both phases of the parallel path, with two merge
\* rounds, and changed the array.
C1_Witness ==
    /\ IntCall
    /\ Returned
    /\ path = <<"parallel">>
    /\ num_chunks >= 3
    /\ arr # orig
    /\ SortedPermutation

\* C2: the array a completed parallel call leaves equals the array
\* vsort_sequential_int makes of the same input, whatever its mallocs do.
C2_ParallelEqualsSequential ==
    (IntCall /\ Returned /\ path = <<"parallel">>) =>
        \A mem \in MemOutcomes, overflow \in OverflowOutcomes(orig) :
            LET r == vsort_sequential_int(orig, FALSE, n, mem, overflow)
            IN r.path # "trap" => arr = r.a

\* A parallel call one above the threshold, with several chunks, that
\* changed the array.
C2_Witness ==
    /\ IntCall
    /\ Returned
    /\ path = <<"parallel">>
    /\ n = thresholds.parallel_threshold + 1
    /\ num_chunks >= 2
    /\ arr # orig

\* The call went into radix_sort_int with mallocs that succeed, or was
\* rejected there for its range.
RadixEntered == LastEngine \in {"radix", "radix_range_quicksort", "trap"}

\* C3 as claimed: radix sort of an array with negative values, INT_MIN and
\* INT_MAX included, ends with the array sorted and a permutation of the input.
C3_RadixSortsFullRange ==
    (Ended /\ RadixEntered) => (Returned /\ SortedPermutation)

\* C4: vsort on a length of 0 or 1 returns at its early return: no driver is
\* chosen, no engine runs and the data is as it was.
C4_ShortIsNoop ==
    (IntCall /\ pc \notin {"idle", "dispatch"} /\ n \in {0, 1}) =>
        (Returned /\ arr = orig /\ path = <<"none">>)

\* A one-element array after the call.
C4_Witness ==
    IntCall /\ Returned /\ n = 1 /\ ~is_null /\ arr = orig /\ path = <<"none">>

\* C5: a second sort of the result of a sort leaves it unchanged, and a sorted
\* input comes back unchanged.
C5_Idempotent ==
    /\ (IntCall /\ Returned /\ calls >= 2) => arr = prev_out
    /\ (IntCall /\ Returned /\ ~is_null /\ IsSorted(orig, n)) => arr = orig

\* A second call that partitioned an array of several distinct values.
C5_Witness ==
    /\ IntCall
    /\ Returned
    /\ calls = 2
    /\ path = <<"quicksort">>
    /\ n >= thresholds.insertion_threshold
    /\ Cardinality(Elements(arr)) >= 3
    /\ arr = prev_out

\* C8: when one of the two scratch buffers of radix_sort_int cannot be
\* allocated, the array the call leaves is what quicksort_int makes of the
\* array as it was passed in, and the call returns with a sorted permutation
\* of the input.
C8_RadixAllocationFallback ==
    (Ended /\ LastEngine \in {"radix_no_temp_arr_quicksort", "radix_no_output_quicksort"})
    => /\ Returned
       /\ SortedPermutation
       /\ \E stack_ok \in BOOLEAN : arr = quicksort_int(orig, 0, n - 1, stack_ok)

\* The second buffer was refused and the fallback had to reorder the array.
C8_Witness ==
    /\ Returned
    /\ LastEngine = "radix_no_output_quicksort"
    /\ arr # orig
    /\ SortedPermutation

\* No block of the parallel path is dispatched, running or holding the buffer.
NoParallelWork == sort_pending = {} /\ merge_state = NoArray /\ temp = NoArray

\* C9: when the merge buffer cannot be allocated the parallel path starts no
\* block, and the array is a sorted permutation of the input on return.
C9_ParallelAllocationFallback ==
    (path # <<>> /\ path[1] = "parallel_no_temp") =>
        (NoParallelWork /\ Ended
            /\ (Returned => SortedPermutation))

\* The buffer was refused and the sequential driver reordered the array.
C9_Witness ==
    /\ Returned
    /\ path # <<>>
    /\ path[1] = "parallel_no_temp"
    /\ arr # orig
    /\ SortedPermutation

\* The arguments make the wrapper called return before it sorts.
InvalidForWrapper ==
    \/ is_null
    \/ n <= 1
    \/ entry = "vsort_with_comparator" /\ (element_size = 0 \/ compare = "null")

\* C7: a wrapper called with a null array, a length of at most 1 or, for
\* vsort_with_comparator, an element size of 0 or a null comparator returns
\* at its early return: no engine and no qsort runs, and the array is as it
\* was.
C7_InvalidInputUntouched ==
    (pc \notin {"idle", "dispatch"} /\ InvalidForWrapper) =>
        (Returned /\ arr = orig /\ path = <<"none">>)

\* vsort_with_comparator returned from a call without a comparator on an
\* array that a sort would have reordered.
C7_Witness ==
    /\ Returned
    /\ entry = "vsort_with_comparator"
    /\ ~is_null
    /\ n >= 2
    /\ element_size > 0
    /\ compare = "null"
    /\ ~IsSorted(arr, n)
    /\ arr = orig
    /\ path = <<"none">>

\* The request is one the validation must reject.
Malformed ==
    \/ is_null /\ n > 0
    \/ kind = "Generic" /\ compare = "null"
    \/ kind = "Generic" /\ element_size = 0

\* C6: vsort_sort answers a malformed request (null data with a positive
\* length, or a Generic request without a comparator or with element size 0)
\* with InvalidArgument, and the data is as it was.
C6_MalformedRequestRejected ==
    (entry = "vsort_sort" /\ pc = "done" /\ Malformed) =>
        (result = "InvalidArgument" /\ arr = orig /\ path = <<"none">>)

\* A Generic request with a comparator and element size 0, on an array the
\* comparator would reorder, was rejected.
C6_Witness ==
    /\ entry = "vsort_sort"
    /\ pc = "done"
    /\ kind = "Generic"
    /\ compare = "ascending"
    /\ element_size = 0
    /\ ~is_null
    /\ n >= 2
    /\ ~IsSorted(arr, n)
    /\ result = "InvalidArgument"
    /\ arr = orig

\* A thread is past vsort_init_thresholds: back in its caller, which reads
\* the thresholds.
PastInit(t) == tpc[t] = "past"

\* A thread is between the flag test and the end of calibration: it writes
\* the profile or the thresholds.
WritingProfile(t) == tpc[t] \in {"detect", "calibrate", "refine"}

\* C10 as claimed: at most one thread runs detection, no thread is past
\* initialization while another is still to write the profile or the
\* thresholds, and nothing is written once the flag is set.
C10_InitRaceFree ==
    /\ Cardinality(detected) <= 1
    /\ \A t, u \in Threads : PastInit(t) => ~WritingProfile(u)
    /\ ~late_write

\* C11: once the flag is set, no step of a call (vsort_init itself, or the
\* vsort_init at the head of a sort) changes the hardware profile, the
\* thresholds or the flag.
C11_InitIdempotent ==
    [][vsort_library_initialized =>
          /\ hardware' = hardware
          /\ thresholds' = thresholds
          /\ vsort_library_initialized']_vars

\* A second sort call has passed its vsort_init() on a library that the
\* first call of the run calibrated (no setting drawn at the start has an
\* insertion threshold of 8 or more), and the calibration is still in place.
C11_Witness ==
    /\ calls = 2
    /\ pc = "dispatch"
    /\ vsort_library_initialized
    /\ thresholds.insertion_threshold >= 8
    /\ thresholds = vsort_calibrate_thresholds(DefaultThresholds, hardware)

\* Every threshold is strictly positive.
ThresholdsPositive ==
    /\ thresholds.insertion_threshold > 0
    /\ thresholds.vector_threshold > 0
    /\ thresholds.parallel_threshold > 0
    /\ thresholds.radix_threshold > 0
    /\ thresholds.cache_optimal_elements > 0

\* C12 as claimed: every threshold is strictly positive in every state,
\* before, during and after calibration, whatever the probes answer.
C12_ThresholdsPositive == ThresholdsPositive

\* The first size bytes of a are in non-decreasing order as unsigned chars.
IsSortedUnsigned(a, size) ==
    \A i \in 1..(size - 1) : ToUnsignedChar(a[i - 1]) <= ToUnsignedChar(a[i])

\* C13: after vsort_char the array is a permutation of the input in
\* non-decreasing order of its bytes read as unsigned chars, so a byte with
\* the high bit set comes after every 7-bit character; the bytes of
\* zbkarfmpce come back as abcefkmprz.
C13_CharUnsignedOrder ==
    (entry = "vsort_char" /\ Returned /\ ~is_null /\ n >= 0) =>
        /\ IsPermutation(arr, orig)
        /\ IsSortedUnsigned(arr, n)
        /\ orig = CharExample => arr = CharExampleSorted

\* A byte with the high bit set (-1 as a char, 255 unsigned) was moved behind
\* a 7-bit character.
C13_Witness ==
    /\ entry = "vsort_char"
    /\ Returned
    /\ n = 3
    /\ orig[0] = -1
    /\ arr[0] = 2
    /\ arr[n - 1] = -1
    /\ arr # orig

\* The first size elements of a are in the order of comparator cmp.
IsSortedBy(a, size, cmp) ==
    \A i \in 1..(size - 1) : CallComparator(cmp, a[i - 1], a[i]) <= 0

\* C14: vsort_with_comparator on a valid call goes to qsort with the caller's
\* comparator and nowhere else, whatever the thresholds and the disorder of
\* the input, and leaves a permutation of the input in which
\* compare(a[i], a[i+1]) <= 0 for every adjacent pair.
C14_GenericUsesComparator ==
    (entry = "vsort_with_comparator" /\ pc \notin {"idle", "dispatch"}
        /\ ~InvalidForWrapper) =>
        /\ Returned
        /\ path = <<"qsort">>
        /\ IsPermutation(arr, orig)
        /\ IsSortedBy(arr, n, compare)

\* The ten ints of the example came back in descending order, on a library
\* whose parallel threshold the length reaches.
C14_Witness ==
    /\ entry = "vsort_with_comparator"
    /\ Returned
    /\ compare = "descending"
    /\ orig = ComparatorExample
    /\ arr = [i \in 0..9 |-> 9 - i]
    /\ n >= thresholds.parallel_threshold
    /\ path = <<"qsort">>

\* The threads that hold the pool's buffer.
PoolOwners == {t \in Threads : tpc[t] \in {"pooled", "copied_pooled", "merged_pooled"}}

InPhase2 == path = <<"parallel">> /\ pc \in {"round", "merging"}

ChunkIsSorted(i) ==
    \A j \in (ChunkStart(i) + 1)..ChunkEnd(i) : arr[j - 1] <= arr[j]

\* C16: whenever the parallel path is in Phase 2 (at the head of the width
\* loop or with the merge tasks of a round dispatched) no Phase-1 chunk task
\* is left, and every chunk is sorted.
C16_MergeAfterAllChunks ==
    InPhase2 =>
        /\ sort_pending = {}
        /\ \A i \in 0..(num_chunks - 1) : ChunkIsSorted(i)

\* The first merge task of Phase 2 has copied its runs, after several
\* chunks were sorted and the array changed in Phase 1.
C16_Witness ==
    /\ InPhase2
    /\ pc = "merging"
    /\ width = chunk_size
    /\ num_chunks >= 3
    /\ \E i \in DOMAIN merge_state :
          /\ merge_state[i] = "copied"
          /\ \A j \in DOMAIN merge_state \ {i} : merge_state[j] = "queued"
    /\ arr # orig

\* Every aligned block [k*width, min((k+1)*width, n)) of the array is sorted.
BlocksSorted ==
    \A k \in 0..((n - 1) \div width) :
        \A j \in (k * width + 1)..VSORT_MIN((k + 1) * width - 1, n - 1) :
            arr[j - 1] <= arr[j]

\* C17: in Phase 2 the width changes only when every merge task of the
\* current round is done, and at the start of a round and all through it
\* every aligned block of the round's width is sorted, so each merge task
\* reads two runs the previous round has finished.
C17_RoundsSequential ==
    [][/\ (InPhase2 /\ width' # width) =>
              \A i \in DOMAIN merge_state : merge_state[i] = "done"
       /\ InPhase2' => BlocksSorted']_vars

\* The second round: its merge task has copied two runs of the doubled
\* width, which the first round merged, and the array is not yet sorted.
C17_Witness ==
    /\ InPhase2
    /\ pc = "merging"
    /\ width = 2 * chunk_size
    /\ \E i \in DOMAIN merge_state : merge_state[i] = "copied"
    /\ BlocksSorted
    /\ ~IsSorted(arr, n)
    /\ arr # orig

\* The indices a Phase-1 task and a merge task are given.
ChunkRange(i) == ChunkStart(i)..ChunkEnd(i)

MergeRange(i) == MergeLeft(i)..MergeRight(i)

\* The indices at which two arrays of the same length differ.
Changed(a, b) == {j \in DOMAIN a : a[j] # b[j]}

\* C18: in Phase 1 the chunks are pairwise disjoint and cover 0..n-1, and a
\* step changes the array only inside the chunk of one pending task; in a
\* merge round the ranges [left, right] of the tasks are pairwise disjoint,
\* and a step changes the array and the temp buffer only inside the range of
\* one unfinished task.
C18_TasksDisjoint ==
    [][/\ pc = "phase1" =>
             /\ \A i, j \in 0..(num_chunks - 1) :
                   i # j => ChunkRange(i) \cap ChunkRange(j) = {}
             /\ UNION {ChunkRange(i) : i \in 0..(num_chunks - 1)} = 0..(n - 1)
             /\ temp' = temp
             /\ \/ arr' = arr
                \/ \E i \in sort_pending : Changed(arr, arr') \subseteq ChunkRange(i)
       /\ pc = "merging" =>
             /\ \A i, j \in DOMAIN merge_state :
                   i # j => MergeRange(i) \cap MergeRange(j) = {}
             /\ \/ arr' = arr /\ temp' = temp
                \/ \E i \in DOMAIN merge_state :
                      /\ merge_state[i] # "done"
                      /\ Changed(arr, arr') \cup Changed(temp, temp') \subseteq MergeRange(i)]_vars

\* Two merge tasks of one round under way at once, each having copied its
\* own range into the shared temp buffer, after four or more chunks.
C18_Witness ==
    /\ pc = "merging"
    /\ num_chunks >= 4
    /\ \E i, j \in DOMAIN merge_state :
          /\ i # j
          /\ merge_state[i] = "copied"
          /\ merge_state[j] = "copied"
          /\ \A k \in MergeRange(i) \cup MergeRange(j) : temp[k] = arr[k]
    /\ arr # orig

\* floor(log2(k)) for k >= 1
RECURSIVE Log2Floor(_)
Log2Floor(k) == IF k <= 1 THEN 0 ELSE 1 + Log2Floor(k \div 2)

\* C19: no range is partitioned more than 2*floor(log2(n)) levels deep: the
\* nesting depth of every partition quicksort_int performs stays within the
\* depth budget (beyond which the range would go to heapsort).
C19_DepthBudget == partition_level <= 2 * Log2Floor(n)

\* The number of elements of the range pushed at stack[at], stack[at + 1].
RangeSizeAt(st, at) == st[at + 1] - st[at] + 1

\* C20: an iteration that pushes both sides of a partition pushes the larger
\* one first, so the smaller one is on top and is processed next, and the
\* number of ranges on the work stack never exceeds floor(log2(n)) + 1.
C20_LargerPushedFirst ==
    [][pc = "quick_loop" =>
         /\ Len(work_stack') \div 2 <= Log2Floor(n) + 1
         /\ Len(work_stack') = Len(work_stack) + 2 =>
               RangeSizeAt(work_stack', Len(work_stack) - 1)
                   >= RangeSizeAt(work_stack', Len(work_stack) + 1)]_vars

\* The range on top of the work stack, and top after it is popped.
TopLow == work_stack[Len(work_stack) - 1]

TopHigh == work_stack[Len(work_stack)]

TopAfterPop == Len(work_stack) - 3

\* C21: in the loop of quicksort_int top stays within -1..capacity-1 before
\* and after every iteration, the stack holds whole (low, high) pairs, so a
\* pop never finds top < 1; an iteration that finds the stack near capacity
\* pushes nothing and leaves its range sorted; and when the call is over the
\* whole array is a sorted permutation of the input.
C21_StackBounded ==
    [][/\ pc = "quick_loop" =>
             /\ -1 <= Len(work_stack) - 1 /\ Len(work_stack) - 1 <= stack_cap - 1
             /\ -1 <= Len(work_stack') - 1 /\ Len(work_stack') - 1 <= stack_cap - 1
             /\ Len(work_stack) % 2 = 0
             /\ Len(work_stack') % 2 = 0
             /\ (/\ Len(work_stack) >= 2
                 /\ TopHigh - TopLow + 1 >= thresholds.insertion_threshold
                 /\ TopAfterPop >= stack_cap - 4) =>
                   /\ work_stack' = SubSeq(work_stack, 1, Len(work_stack) - 2)
                   /\ \A j \in (TopLow + 1)..TopHigh : arr'[j - 1] <= arr'[j]
       /\ pc' = "quick_done" =>
             /\ IsSorted(arr', n)
             /\ IsPermutation(arr', orig)]_vars

\* A call that is over, in which the full stack made an iteration fall back
\* to insertion sort, and that reordered the array.
C21_Witness ==
    /\ pc = "quick_done"
    /\ fallbacks >= 1
    /\ stack_cap = MaxStackInts
    /\ arr # orig
    /\ IsSorted(arr, n)

\* The array the current call was given: the first call's input, or what the
\* call before it returned.
CallInput == IF calls >= 2 THEN prev_out ELSE orig

\* C22: when a call has gone through the digit passes of radix_sort_int,
\* every shifted key is exactly input[i] - min(0, min_val), lies in
\* 0..max_shifted with max_shifted <= UINT_MAX, the keys are ordered as the
\* values are, undoing the shift on the keys gives the input back, and the
\* array returned is the passes' result with the shift undone; also for
\* min_val = INT_MIN.
C22_RadixShiftExact ==
    (IntCall /\ Returned /\ LastEngine = "radix") =>
        LET mm == MinMaxFrom(CallInput, 1, n, CallInput[0], CallInput[0])
            shift_amount == ShiftAmount(mm.min_val, "wrap")
            max_shifted == MaxShifted(mm.max_val, mm.min_val)
            keys == ShiftKeys(CallInput, n, shift_amount)
            sorted_keys == RadixPasses(keys, [i \in 0..(n - 1) |-> 0], n, 0,
                                       RadixPassCount(max_shifted))
        IN /\ max_shifted <= UINT_MAX
           /\ \A i \in 0..(n - 1) :
                 /\ keys[i] = CallInput[i] - VSORT_MIN(0, mm.min_val)
                 /\ 0 <= keys[i] /\ keys[i] <= max_shifted
           /\ \A i, j \in 0..(n - 1) :
                 (keys[i] <= keys[j]) <=> (CallInput[i] <= CallInput[j])
           /\ UnshiftKeys(keys, n, shift_amount) = CallInput
           /\ arr = UnshiftKeys(sorted_keys, n, shift_amount)
           /\ IsSorted(arr, n)
           /\ IsPermutation(arr, CallInput)

\* A first call that went through the digit passes on an array holding
\* INT_MIN and INT_MAX, and reordered it.
C22_Witness ==
    /\ IntCall /\ Returned /\ LastEngine = "radix"
    /\ calls = 1
    /\ \E i, j \in 0..(n - 1) : orig[i] = INT_MIN /\ orig[j] = INT_MAX
    /\ arr # orig

\* C23: the heuristic answers false for every array of fewer than 20
\* elements, sorted ones included; it leaves the array as it was and reads
\* only indices 0..n-1.
C23_ShortNeverNearlySorted ==
    pc = "near_done" =>
        /\ n < 20 => ~nearly
        /\ arr = orig
        /\ reads \subseteq 0..(n - 1)

\* The heuristic answered for a sorted array of 19 elements.
C23_Witness ==
    /\ pc = "near_done"
    /\ n = 19
    /\ IsSorted(arr, n)
    /\ arr[n - 1] > arr[0]
    /\ ~nearly

\* The pairs (arr[k*step], arr[(k+1)*step]) the heuristic samples, by the
\* index k of the pair, and those of them that are out of order.
SampledPairs ==
    {k \in 0..(NearlySampleSize(n) - 1) : (k + 1) * NearlyStep(n) < n}

InvertedPairs ==
    {k \in SampledPairs : arr[k * NearlyStep(n)] > arr[(k + 1) * NearlyStep(n)]}

\* C24 as claimed: an array of 32 or more elements with at most 10% of its
\* sampled pairs out of order, exactly 10% included, is classified nearly
\* sorted.
C24_AtMostTenPercent ==
    (pc = "near_done" /\ n >= 32
        /\ Cardinality(InvertedPairs) * 10 <= Cardinality(SampledPairs)) => nearly

\* C24 amended: an array of 32 or more elements with fewer than 10% of its
\* sampled pairs out of order, none included, is classified nearly sorted;
\* with exactly 10% it is not.
C24_BelowTenPercent ==
    (pc = "near_done" /\ n >= 32) =>
        /\ sampled.observed = Cardinality(SampledPairs)
        /\ sampled.inversions = Cardinality(InvertedPairs)
        /\ Cardinality(InvertedPairs) * 10 < Cardinality(SampledPairs) => nearly
        /\ Cardinality(InvertedPairs) * 10 = Cardinality(SampledPairs) => ~nearly

\* Eleven sampled pairs of which one is out of order: classified nearly
\* sorted.
C24_Witness ==
    /\ pc = "near_done"
    /\ n >= 32
    /\ Cardinality(SampledPairs) = 11
    /\ Cardinality(InvertedPairs) = 1
    /\ nearly

\* The call is vsort or vsort_float on an array of more than one element.
DispatchedCall ==
    entry \in {"vsort", "vsort_float"} /\ ~is_null /\ n > 1

\* C25 as claimed: a vsort or vsort_float call whose input the heuristic
\* classifies as nearly sorted is sorted by insertion sort, whatever its
\* length, also at or above radix_threshold and parallel_threshold.
C25_NearlySortedUsesInsertion ==
    (DispatchedCall /\ Returned /\ vsort_is_nearly_sorted_int(CallInput, n)) =>
        path = <<"insertion">>

\* What path ends in when the call went into radix_sort_int.
RadixEngines ==
    {"radix", "radix_noop", "radix_no_temp_arr_quicksort", "radix_range_quicksort",
     "radix_no_output_quicksort", "trap"}

\* C26 as claimed: a vsort call on an array that is not classified nearly
\* sorted and has radix_threshold or more elements goes to radix_sort_int,
\* never to the parallel path; a vsort_float call never goes to radix sort.
C26_RadixBeforeParallel ==
    (DispatchedCall /\ Ended) =>
        /\ (entry = "vsort" /\ ~vsort_is_nearly_sorted_int(CallInput, n)
               /\ n >= thresholds.radix_threshold) =>
              LastEngine \in RadixEngines
        /\ entry = "vsort_float" => LastEngine \notin RadixEngines

\* A call has passed vsort_init and is about to be dispatched.
Invoked == pc = "dispatch"

\* C27 as claimed: under a fair schedule every call that was invoked returns.
C27_CallReturns == Invoked ~> Returned

\* Every loop of the call terminates: under a fair schedule every call that
\* was invoked ends, by returning or, where the build traps on the overflow
\* of -min_val, by the trap.
EveryCallEnds == Invoked ~> Ended

\* The call of merge_sorted_arrays_int has returned.
Merged == pc = "merge_done"

\* The range of the call was one the early return rejects.
MergeRejected ==
    MergeRejects(merge_args.left, merge_args.mid, merge_args.right)

MergedRange == merge_args.left..merge_args.right

\* C28: merge_sorted_arrays_int on two sorted runs leaves arr[left..right]
\* sorted and a permutation of what it held, each element being the one of
\* the index recorded for it; of two equal elements the one that came first
\* (the left run's on a tie between the runs) stays first; no element of arr
\* or temp outside [left, right] is written; and a rejected range leaves arr
\* and temp as they were.
C28_MergeSortedStable ==
    Merged =>
        IF MergeRejected
        THEN arr = orig /\ temp = temp_in
        ELSE /\ \A i \in MergedRange : i < merge_args.right => arr[i] <= arr[i + 1]
             /\ IsPermutation(arr, orig)
             /\ \A i \in MergedRange : taken[i] \in MergedRange /\ arr[i] = orig[taken[i]]
             /\ \A i, j \in MergedRange :
                   (i < j /\ arr[i] = arr[j]) => taken[i] < taken[j]
             /\ \A i \in DOMAIN arr \ MergedRange : arr[i] = orig[i]
             /\ \A i \in DOMAIN temp \ MergedRange : temp[i] = temp_in[i]
             /\ \A i \in MergedRange : temp[i] = orig[i]

\* A merge that moved elements, met a tie between the two runs, ended with
\* the tail of the right run where it was (never copied back from temp), and
\* had elements of arr and temp outside its range.
C28_Witness ==
    /\ Merged
    /\ ~MergeRejected
    /\ arr # orig
    /\ \E i \in merge_args.left..merge_args.mid :
          \E j \in (merge_args.mid + 1)..merge_args.right : orig[i] = orig[j]
    /\ taken[merge_args.right] = merge_args.right
    /\ MergedRange # DOMAIN arr

\* A rejected range: the call returned and nothing was written.
C28_RejectedWitness ==
    Merged /\ MergeRejected /\ merge_args.left < merge_args.right

\* The call went into radix_sort_int on more than one element and no
\* allocation of radix_sort_int failed.
RadixAllocated ==
    /\ IntCall /\ Ended /\ n > 1
    /\ LastEngine \in {"radix", "radix_range_quicksort", "trap"}

\* C29 as claimed: radix_sort_int never falls back to quicksort because of
\* the range of the values, and every array that reaches it with successful
\* allocations is sorted by the digit passes.
C29_RangeNeverRejects ==
    /\ \A k \in DOMAIN path : path[k] # "radix_range_quicksort"
    /\ RadixAllocated => (Returned /\ LastEngine = "radix" /\ SortedPermutation)

\* The part of C29 about the range test: max_val - min_val > UINT_MAX holds
\* for no two ints, so the fallback behind it is never taken.
RangeBranchNeverTaken ==
    \A k \in DOMAIN path : path[k] # "radix_range_quicksort"

\* An array holding both INT_MIN and INT_MAX went through the digit passes.
FullRangeRadix ==
    /\ IntCall /\ Returned /\ LastEngine = "radix"
    /\ \E i, j \in DOMAIN CallInput : CallInput[i] = INT_MIN /\ CallInput[j] = INT_MAX

\* C30 as claimed: for every length up to INT_MAX no int expression of the
\* chunk and merge index arithmetic overflows, the width loop ends with
\* width >= size, and left, mid and right of every merge task lie in
\* [0, size - 1].
C30_IndexArithmeticInRange ==
    /\ overflows = {}
    /\ pc # "trapped"
    /\ pc = "index_done" => width >= n
    /\ \A r \in ranges :
          0 <= r.left /\ r.left <= r.mid /\ r.mid <= r.right /\ r.right <= n - 1

\* The lengths for which the claim of C30 does hold: up to a third of
\* INT_MAX nothing overflows and every index is in range.
IndexInRangeForShort ==
    n <= INT_MAX \div 3 => C30_IndexArithmeticInRange

====
